---- MODULE Spec2Model ----
(***************************************************************************)
(* Model of the metric indispensability engine of scamp_extensions:        *)
(* the MeterArithmeticGroup parser, the MetricLayer structure (as Python   *)
(* objects on a heap, because the code shares and mutates them), the       *)
(* nested beat groups, depth normalization, flatten_beat_groups and the    *)
(* indispensability array (src/rhythm/indispensibility.py), and the older  *)
(* get_standard_indispensability_array of composers/barlicity.py.          *)
(***************************************************************************)
EXTENDS Integers, Sequences, FiniteSets, TLC

VARIABLES
    mode,       \* which entry point this behaviour exercises
    phase,      \* "start" before the call, "done" after it returned or raised
    input,      \* the expression string (sequence of characters) and what is known about it
    flags,      \* keyword arguments of the call
    outcome,    \* how the call ended and what it returned
    heap,       \* the MetricLayer objects and their groups lists
    names,      \* the objects the calling program holds a reference to
    last        \* the last operation applied to the heap

vars == <<mode, phase, input, flags, outcome, heap, names, last>>

(***************************************************************************)
(* Bounds                                                                  *)
(***************************************************************************)
MaxLen == 5        \* longest generated meter expression
MaxBeats == 12     \* largest arithmetic value of a generated expression
MaxDigit == 5      \* largest digit used in a generated expression
MaxStr == 5        \* longest raw string handed to the parser
MaxObjs == 4       \* most MetricLayer objects on the heap
MaxOps == 3        \* most operations applied to the heap

(***************************************************************************)
(* Small helpers                                                           *)
(***************************************************************************)
Range(s) == {s[i] : i \in DOMAIN s}

RECURSIVE SeqSum(_)
SeqSum(s) == IF s = <<>> THEN 0 ELSE Head(s) + SeqSum(Tail(s))

RECURSIVE SeqMax(_)
SeqMax(s) == IF Len(s) = 1 THEN s[1]
             ELSE LET m == SeqMax(Tail(s)) IN IF s[1] >= m THEN s[1] ELSE m

Reverse(s) == [i \in 1..Len(s) |-> s[Len(s) + 1 - i]]

RECURSIVE Flatten1(_)
Flatten1(ss) == IF ss = <<>> THEN <<>> ELSE Head(ss) \o Flatten1(Tail(ss))

\* list.index(x): 0-based position of the first occurrence
IndexOf(s, x) == (CHOOSE i \in 1..Len(s) : s[i] = x /\ \A j \in 1..(i - 1) : s[j] # x) - 1

(***************************************************************************)
(* rotate, decompose_to_twos_and_threes                                    *)
(***************************************************************************)
\* mutant: the rotation is forgotten
rotate_Forgotten(l, n) == l

rotate(l, n) == SubSeq(l, n + 1, Len(l)) \o SubSeq(l, 1, n)

RECURSIVE Twos(_)
Twos(n) == IF n > 0 THEN <<2>> \o Twos(n - 2) ELSE <<>>

\* mutant: the final reversal is forgotten, a 3 comes first
decompose_to_twos_and_threes_Unreversed(n) ==
    IF n % 2 = 1 THEN <<3>> \o Twos(n - 3) ELSE Twos(n)

decompose_to_twos_and_threes(n) ==
    LET out == IF n % 2 = 1 THEN <<3>> \o Twos(n - 3) ELSE Twos(n)
    IN Reverse(out)

(***************************************************************************)
(* Nested Python lists of integers: a leaf or a list of nested values      *)
(***************************************************************************)
Leaf(n) == [isList |-> FALSE, val |-> n, items |-> <<>>]
List(s) == [isList |-> TRUE, val |-> 0, items |-> s]

RECURSIVE ListMembers(_)
ListMembers(s) ==
    IF s = <<>> THEN <<>>
    ELSE (IF Head(s).isList THEN <<Head(s).items>> ELSE <<>>) \o ListMembers(Tail(s))

\* the next level is bound as a value, so that it is computed once per level
RECURSIVE DepthLevels(_, _)
DepthLevels(level, n) ==
    IF level = <<>> THEN n
    ELSE CHOOSE d \in {DepthLevels(inner, n + 1) :
                           inner \in {Flatten1(ListMembers(level))}} : TRUE

depth(seq) == IF ~seq.isList THEN 0 ELSE DepthLevels(seq.items, 0)

RECURSIVE WrapTo(_, _)
WrapTo(x, d) == IF depth(x) < d THEN WrapTo(List(<<x>>), d) ELSE x

\* an empty list anywhere makes max() raise inside normalize_depth
RECURSIVE HasEmptyList(_)
HasEmptyList(x) ==
    x.isList /\ (x.items = <<>> \/ \E i \in DOMAIN x.items : HasEmptyList(x.items[i]))

\* mutant: the depths are left as they are
normalize_depth_None(input_list) == input_list

\* mutant: the elements come out in reversed order
RECURSIVE normalize_depth_Reversed(_)
normalize_depth_Reversed(input_list) ==
    LET its == input_list.items
        max_depth == SeqMax([i \in DOMAIN its |-> depth(its[i])])
        wrapped == [i \in DOMAIN its |-> WrapTo(its[i], max_depth)]
    IN List(Reverse([i \in DOMAIN its |->
                IF wrapped[i].isList THEN normalize_depth_Reversed(wrapped[i])
                ELSE wrapped[i]]))

RECURSIVE normalize_depth(_)
normalize_depth(input_list) ==
    LET its == input_list.items
        max_depth == SeqMax([i \in DOMAIN its |-> depth(its[i])])
        wrapped == [i \in DOMAIN its |-> WrapTo(its[i], max_depth)]
    IN List([i \in DOMAIN its |->
                IF wrapped[i].isList THEN normalize_depth(wrapped[i]) ELSE wrapped[i]])

(***************************************************************************)
(* flatten_beat_groups: beat_groups is a sequence of sub-groups, each a    *)
(* sequence of nested values; the function works on a deep copy            *)
(***************************************************************************)
\* mutant: the first beats are emitted from the last sub-group to the first
FirstBeats_LastFirst(groups) ==
    [out |-> Reverse([i \in DOMAIN groups |-> Head(groups[i])]),
     groups |-> [i \in DOMAIN groups |-> Tail(groups[i])]]

\* "first big beats": pop the first element of every sub-group
FirstBeats(groups) ==
    [out |-> [i \in DOMAIN groups |-> Head(groups[i])],
     groups |-> [i \in DOMAIN groups |-> Tail(groups[i])]]

\* mutant: no pickups are taken
Pickups_None(st, i) == st

\* mutant: the pickups are taken from the last sub-group first
RECURSIVE Pickups_LastFirst(_, _)
Pickups_LastFirst(st, i) ==
    IF i > Len(st.groups) THEN st
    ELSE LET k == Len(st.groups) + 1 - i IN
         IF Len(st.groups[k]) > 0
         THEN Pickups_LastFirst([out |-> Append(st.out, Head(st.groups[k])),
                                 groups |-> [st.groups EXCEPT ![k] = Tail(@)]], i + 1)
         ELSE Pickups_LastFirst(st, i + 1)

\* "then the pickups to those beats": pop one more from every non-empty sub-group
RECURSIVE Pickups(_, _)
Pickups(st, i) ==
    IF i > Len(st.groups) THEN st
    ELSE IF Len(st.groups[i]) > 0
         THEN Pickups([out |-> Append(st.out, Head(st.groups[i])),
                       groups |-> [st.groups EXCEPT ![i] = Tail(@)]], i + 1)
         ELSE Pickups(st, i + 1)

\* mutant: among the longest sub-groups the last one is served first
RECURSIVE LongestChain_LastFirst(_)
LongestChain_LastFirst(st) ==
    LET max_subgroup_length == SeqMax([i \in DOMAIN st.groups |-> Len(st.groups[i])])
    IN IF max_subgroup_length = 0 THEN st
       ELSE LET k == CHOOSE i \in DOMAIN st.groups :
                        /\ Len(st.groups[i]) = max_subgroup_length
                        /\ \A j \in (i + 1)..Len(st.groups) :
                              Len(st.groups[j]) # max_subgroup_length
            IN LongestChain_LastFirst([out |-> Append(st.out, Head(st.groups[k])),
                                       groups |-> [st.groups EXCEPT ![k] = Tail(@)]])

\* "then by the longest chain, and secondarily by order"
RECURSIVE LongestChain(_)
LongestChain(st) ==
    LET max_subgroup_length == SeqMax([i \in DOMAIN st.groups |-> Len(st.groups[i])])
    IN IF max_subgroup_length = 0 THEN st
       ELSE LET k == CHOOSE i \in DOMAIN st.groups :
                        /\ Len(st.groups[i]) = max_subgroup_length
                        /\ \A j \in 1..(i - 1) : Len(st.groups[j]) # max_subgroup_length
            IN LongestChain([out |-> Append(st.out, Head(st.groups[k])),
                             groups |-> [st.groups EXCEPT ![k] = Tail(@)]])

\* mutant: the flag is ignored, the pickups are never taken first
flatten_beat_groups_FlagIgnored(beat_groups, upbeats_before_group_length) ==
    LongestChain(FirstBeats(beat_groups)).out

flatten_beat_groups(beat_groups, upbeats_before_group_length) ==
    LET s1 == FirstBeats(beat_groups)
        s2 == IF upbeats_before_group_length THEN Pickups(s1, 1) ELSE s1
    IN LongestChain(s2).out

\* the sub-groups of a nested list whose elements are all lists
SubGroups(x) == [i \in DOMAIN x.items |-> x.items[i].items]

\* the while loop of get_backward_beat_priorities
RECURSIVE FlattenLoop(_, _)
FlattenLoop(nested_beat_groups, upbeats_before_group_length) ==
    IF depth(nested_beat_groups) > 1
    THEN FlattenLoop(List(flatten_beat_groups(SubGroups(nested_beat_groups),
                                              upbeats_before_group_length)),
                     upbeats_before_group_length)
    ELSE nested_beat_groups

\* mutant: the backward array is returned as it is, neither rotated nor reversed
ArrayFromPriorities_Backward(backward_beat_priorities) ==
    LET length == Len(backward_beat_priorities)
    IN [k \in 1..length |-> length - 1 - IndexOf(backward_beat_priorities, k - 1)]

\* mutant: the list is reversed before it is rotated
ArrayFromPriorities_ReversedFirst(backward_beat_priorities) ==
    LET length == Len(backward_beat_priorities)
        backward_indispensibility_array ==
            [k \in 1..length |-> length - 1 - IndexOf(backward_beat_priorities, k - 1)]
    IN rotate(Reverse(backward_indispensibility_array), 1)

\* lines 309-313 of get_indispensibility_array, from the backward priorities
ArrayFromPriorities(backward_beat_priorities) ==
    LET length == Len(backward_beat_priorities)
        backward_indispensibility_array ==
            [k \in 1..length |-> length - 1 - IndexOf(backward_beat_priorities, k - 1)]
    IN Reverse(rotate(backward_indispensibility_array, 1))

\* lines 314-316: x / max_val as the exact fraction [num, den]
Normalized(indispensibility_array) ==
    LET max_val == SeqMax(indispensibility_array)
    IN [i \in DOMAIN indispensibility_array |->
           [num |-> indispensibility_array[i], den |-> max_val]]

(***************************************************************************)
(* The heap of MetricLayer objects.  heap.objs[o] is the identity of the   *)
(* list object bound to o.groups; heap.lists[l] is that list's content.    *)
(* Two objects may be bound to the same list, and a list may hold the same *)
(* object several times.                                                   *)
(***************************************************************************)
IntItem(n) == [kind |-> "int", v |-> n]
LayerItem(o) == [kind |-> "layer", v |-> o]
OtherItem == [kind |-> "other", v |-> 0]

EmptyHeap == [objs |-> <<>>, lists |-> <<>>]

groups(h, o) == h.lists[h.objs[o]]

IntItems(ns) == [i \in DOMAIN ns |-> IntItem(ns[i])]

RECURSIVE MetricLayer(_, _, _)
RECURSIVE break_up_large_numbers(_, _)
RECURSIVE BreakUpLoop(_, _, _)
RECURSIVE remove_redundant_nesting(_, _)
RECURSIVE RemoveLoop(_, _, _)

\* the groups of the layers among gs spliced in place of the layers
RECURSIVE Spliced(_, _)
Spliced(h, gs) ==
    IF gs = <<>> THEN <<>>
    ELSE (IF Head(gs).kind = "layer" THEN groups(h, Head(gs).v) ELSE <<Head(gs)>>)
         \o Spliced(h, Tail(gs))

\* mutant: addition made associative, the groups of nested layers are spliced in
MetricLayer_Associative(h, gs, break_up) ==
    LET l == Len(h.lists) + 1
        o == Len(h.objs) + 1
        h1 == [objs |-> Append(h.objs, l),
               lists |-> Append(h.lists, IF Len(gs) > 1 THEN Spliced(h, gs) ELSE gs)]
        h2 == IF break_up THEN break_up_large_numbers(h1, o) ELSE h1
    IN [h |-> remove_redundant_nesting(h2, o), r |-> o]

\* MetricLayer.__init__ for groups that pass the isinstance assertion:
\* returns the heap after construction and the new object
MetricLayer(h, gs, break_up) ==
    LET l == Len(h.lists) + 1
        o == Len(h.objs) + 1
        h1 == [objs |-> Append(h.objs, l), lists |-> Append(h.lists, gs)]
        h2 == IF break_up THEN break_up_large_numbers(h1, o) ELSE h1
    IN [h |-> remove_redundant_nesting(h2, o), r |-> o]

\* mutant: only the numbers above 4 are broken up
RECURSIVE BreakUpLoop_Above4(_, _, _)
BreakUpLoop_Above4(h, l, i) ==
    IF i > Len(h.lists[l]) THEN h
    ELSE LET group == h.lists[l][i] IN
         IF group.kind = "int"
         THEN IF group.v > 4
              THEN LET c == MetricLayer(h, IntItems(decompose_to_twos_and_threes(group.v)), FALSE)
                   IN BreakUpLoop_Above4([c.h EXCEPT !.lists[l][i] = LayerItem(c.r)], l, i + 1)
              ELSE BreakUpLoop_Above4(h, l, i + 1)
         ELSE BreakUpLoop_Above4(break_up_large_numbers(h, group.v), l, i + 1)

\* the enumerate loop of break_up_large_numbers over the list l, from index i
BreakUpLoop(h, l, i) ==
    IF i > Len(h.lists[l]) THEN h
    ELSE LET group == h.lists[l][i] IN
         IF group.kind = "int"
         THEN IF group.v > 3
              THEN LET c == MetricLayer(h, IntItems(decompose_to_twos_and_threes(group.v)), FALSE)
                   IN BreakUpLoop([c.h EXCEPT !.lists[l][i] = LayerItem(c.r)], l, i + 1)
              ELSE BreakUpLoop(h, l, i + 1)
         ELSE BreakUpLoop(break_up_large_numbers(h, group.v), l, i + 1)

\* mutant: large numbers are left whole
break_up_large_numbers_Skipped(h, o) == h

break_up_large_numbers(h, o) == BreakUpLoop(h, h.objs[o], 1)

\* the enumerate loop of _remove_redundant_nesting over the list l, from index i
RemoveLoop(h, l, i) ==
    IF i > Len(h.lists[l]) THEN h
    ELSE LET group == h.lists[l][i] IN
         IF group.kind = "layer"
         THEN LET h1 == remove_redundant_nesting(h, group.v)
                  gg == groups(h1, group.v)
              IN IF Len(gg) = 1 /\ gg[1].kind = "int"
                 THEN RemoveLoop([h1 EXCEPT !.lists[l][i] = gg[1]], l, i + 1)
                 ELSE RemoveLoop(h1, l, i + 1)
         ELSE RemoveLoop(h, l, i + 1)

remove_redundant_nesting(h, o) ==
    LET gs == groups(h, o) IN
    IF Len(gs) = 1 /\ gs[1].kind = "layer"
    THEN remove_redundant_nesting([h EXCEPT !.objs[o] = h.objs[gs[1].v]], o)
    ELSE RemoveLoop(h, h.objs[o], 1)

RECURSIVE mul(_, _, _)
RECURSIVE MulGroups(_, _, _, _, _)

\* [x] * n
RECURSIVE Repeat(_, _)
Repeat(x, n) == IF n <= 0 THEN <<>> ELSE <<x>> \o Repeat(x, n - 1)

\* mutant: the copies are forgotten, self is returned for every other
rmul_NoCopies(h, self, other) == [h |-> h, r |-> self]

\* MetricLayer.__rmul__: other * self for an integer other
rmul(h, self, other) ==
    IF other = 1 THEN [h |-> h, r |-> self]
    ELSE MetricLayer(h, Repeat(LayerItem(self), other), FALSE)

\* mutant: only the integer groups are multiplied, nested groups are kept
RECURSIVE MulGroups_IntegersOnly(_, _, _, _, _)
MulGroups_IntegersOnly(h, l, i, other, acc) ==
    IF i > Len(h.lists[l]) THEN [h |-> h, r |-> acc]
    ELSE LET group == h.lists[l][i]
         IN CHOOSE res \in
                {MulGroups_IntegersOnly(p.h, l, i + 1, other, Append(acc, LayerItem(p.r))) :
                    p \in {IF group.kind = "int" THEN rmul(h, other, group.v)
                           ELSE [h |-> h, r |-> group.v]}} : TRUE

\* the generator (group * other for group in self.groups) over the list l
MulGroups(h, l, i, other, acc) ==
    IF i > Len(h.lists[l]) THEN [h |-> h, r |-> acc]
    ELSE LET group == h.lists[l][i]
         IN CHOOSE res \in
                {MulGroups(p.h, l, i + 1, other, Append(acc, LayerItem(p.r))) :
                    p \in {IF group.kind = "int" THEN rmul(h, other, group.v)
                           ELSE mul(h, group.v, other)}} : TRUE

\* mutant: the operands are taken the other way round
mul_Swapped(h, self, other) ==
    CHOOSE res \in {MetricLayer(gen.h, gen.r, FALSE) :
                       gen \in {MulGroups(h, h.objs[other], 1, self, <<>>)}} : TRUE

\* MetricLayer.__mul__ for a MetricLayer other
mul(h, self, other) ==
    CHOOSE res \in {MetricLayer(gen.h, gen.r, FALSE) :
                       gen \in {MulGroups(h, h.objs[self], 1, other, <<>>)}} : TRUE

\* MetricLayer.__mul__ for an integer other
mul_int(h, self, other) ==
    LET m == MetricLayer(h, <<IntItem(other)>>, FALSE)
    IN mul(m.h, self, m.r)

(***************************************************************************)
(* Nested beat groups of a structure                                       *)
(***************************************************************************)
\* mutant: only the top level is counted
count_nested_list_Shallow(l) == Len(l)

RECURSIVE count_nested_list(_)
count_nested_list(l) ==
    SeqSum([i \in DOMAIN l |-> IF l[i].isList THEN count_nested_list(l[i].items) ELSE 1])

\* mutant: the running beat offset is not added
increment_nested_list_NoOffset(l, increment) == l

RECURSIVE increment_nested_list(_, _)
increment_nested_list(l, increment) ==
    [i \in DOMAIN l |->
        IF l[i].isList THEN List(increment_nested_list(l[i].items, increment))
        ELSE Leaf(l[i].val + increment)]

RECURSIVE get_nested_beat_groups(_, _)
RECURSIVE BeatGroupsLoop(_, _, _, _, _)

\* mutant: the groups are visited in their own order
RECURSIVE BeatGroupsLoop_Forward(_, _, _, _, _)
BeatGroupsLoop_Forward(h, gs, i, beat, beat_groups) ==
    IF i < 1 THEN beat_groups
    ELSE LET group == gs[Len(gs) + 1 - i]
             raw == IF group.kind = "int" THEN [k \in 1..group.v |-> Leaf(k - 1)]
                    ELSE get_nested_beat_groups(h, group.v)
             beat_group == increment_nested_list(raw, beat)
         IN BeatGroupsLoop_Forward(h, gs, i - 1, beat + count_nested_list(beat_group),
                                   Append(beat_groups, List(beat_group)))

\* the loop over reversed(self.groups): gs is the groups list, i runs downwards
BeatGroupsLoop(h, gs, i, beat, beat_groups) ==
    IF i < 1 THEN beat_groups
    ELSE LET group == gs[i]
             raw == IF group.kind = "int" THEN [k \in 1..group.v |-> Leaf(k - 1)]
                    ELSE get_nested_beat_groups(h, group.v)
             beat_group == increment_nested_list(raw, beat)
         IN BeatGroupsLoop(h, gs, i - 1, beat + count_nested_list(beat_group),
                           Append(beat_groups, List(beat_group)))

get_nested_beat_groups(h, self) ==
    LET gs == groups(h, self) IN BeatGroupsLoop(h, gs, Len(gs), 0, <<>>)

(***************************************************************************)
(* MeterArithmeticGroup: operation is "+", "*" or "None" (a number n)      *)
(***************************************************************************)
Number(k) == [operation |-> "None", n |-> k, elements |-> <<>>]
Group(els, op) == [operation |-> op, n |-> 0, elements |-> els]
ParseFailure == [operation |-> "Error", n |-> 0, elements |-> <<>>]

Digits == {"0", "1", "2", "3", "4", "5", "6", "7", "8", "9"}
DigitValue == ("0" :> 0) @@ ("1" :> 1) @@ ("2" :> 2) @@ ("3" :> 3) @@ ("4" :> 4) @@
              ("5" :> 5) @@ ("6" :> 6) @@ ("7" :> 7) @@ ("8" :> 8) @@ ("9" :> 9)
Operators == {"+", "*"}
Alphabet == Digits \cup Operators \cup {"(", ")"}

\* int(input_string) for a string of digits
RECURSIVE ToInt(_)
ToInt(str) ==
    IF str = <<>> THEN 0
    ELSE 10 * ToInt(SubSeq(str, 1, Len(str) - 1)) + DigitValue[str[Len(str)]]

\* input_string.replace(" ", "")
RECURSIVE RemoveSpaces(_)
RemoveSpaces(str) ==
    IF str = <<>> THEN <<>>
    ELSE (IF Head(str) = " " THEN <<>> ELSE <<Head(str)>>) \o RemoveSpaces(Tail(str))

\* the character loop of parse (lines 111-137); level -1 records the failed
\* assertion paren_level >= 0
RECURSIVE ChunkLoop(_, _, _, _, _)
ChunkLoop(str, i, paren_level, chunks, current_chunk) ==
    IF i > Len(str)
    THEN [level |-> paren_level,
          chunks |-> IF Len(current_chunk) > 0 THEN Append(chunks, current_chunk) ELSE chunks]
    ELSE LET char == str[i] IN
         IF paren_level = 0 /\ char \in Operators
         THEN ChunkLoop(str, i + 1, paren_level,
                        (IF Len(current_chunk) > 0 THEN Append(chunks, current_chunk)
                         ELSE chunks) \o <<(<<char>>)>>, <<>>)
         ELSE IF char = "("
         THEN IF paren_level + 1 = 1
              THEN ChunkLoop(str, i + 1, 1, chunks, current_chunk)
              ELSE ChunkLoop(str, i + 1, paren_level + 1, chunks, Append(current_chunk, char))
         ELSE IF char = ")"
         THEN IF paren_level - 1 < 0 THEN [level |-> -1, chunks |-> chunks]
              ELSE IF paren_level - 1 = 0
              THEN ChunkLoop(str, i + 1, 0, Append(chunks, current_chunk), <<>>)
              ELSE ChunkLoop(str, i + 1, paren_level - 1, chunks, Append(current_chunk, char))
         ELSE ChunkLoop(str, i + 1, paren_level, chunks, Append(current_chunk, char))

\* the inner while loop of lines 147-149: collects further factors; ok is
\* FALSE when chunks[i + 1] does not exist (IndexError)
RECURSIVE MoreFactors(_, _, _)
MoreFactors(chunks, i, multiplied_elements) ==
    IF i <= Len(chunks) /\ chunks[i] = <<"*">>
    THEN IF i + 1 > Len(chunks) THEN [ok |-> FALSE, i |-> i, els |-> multiplied_elements]
         ELSE MoreFactors(chunks, i + 2, Append(multiplied_elements, chunks[i + 1]))
    ELSE [ok |-> TRUE, i |-> i, els |-> multiplied_elements]

\* mutant: the assertion against adjacent operators is dropped
AdjacentOperators_Unchecked(str) == FALSE

\* line 108: any of "++", "+*", "*+", "**" occurs in the string
AdjacentOperators(str) ==
    \E i \in 1..(Len(str) - 1) : str[i] \in Operators /\ str[i + 1] \in Operators

RECURSIVE parse(_)
RECURSIVE ParseAll(_)
RECURSIVE MergeMultiplies(_, _, _)

\* [parse(x) for x in strs]; ok is FALSE as soon as one of them raises
ParseAll(strs) ==
    IF strs = <<>> THEN [ok |-> TRUE, els |-> <<>>]
    ELSE LET t == parse(Head(strs)) IN
         IF t = ParseFailure THEN [ok |-> FALSE, els |-> <<>>]
         ELSE LET rest == ParseAll(Tail(strs)) IN
              [ok |-> rest.ok, els |-> <<t>> \o rest.els]

\* the while loop of lines 143-154 from index i (1-based); merged holds, for
\* each entry, either a parsed "*" group or a chunk still to be parsed
MergeMultiplies(chunks, i, merged) ==
    IF i > Len(chunks) THEN [ok |-> TRUE, merged |-> merged]
    ELSE IF i + 1 <= Len(chunks) /\ chunks[i + 1] = <<"*">>
    THEN LET first == IF i + 2 <= Len(chunks) THEN <<chunks[i], chunks[i + 2]>>
                      ELSE <<chunks[i]>>
             more == MoreFactors(chunks, i + 3, first)
             parsed == ParseAll(more.els)
         IN IF ~more.ok \/ ~parsed.ok THEN [ok |-> FALSE, merged |-> merged]
            ELSE MergeMultiplies(chunks, more.i,
                     Append(merged, [isGroup |-> TRUE, chunk |-> <<>>,
                                     group |-> Group(parsed.els, "*")]))
    ELSE MergeMultiplies(chunks, i + 1,
             Append(merged, [isGroup |-> FALSE, chunk |-> chunks[i], group |-> ParseFailure]))

\* lines 155-158: the "+" group of the merged entries other than "+"
RECURSIVE PlusElements(_)
PlusElements(merged) ==
    IF merged = <<>> THEN [ok |-> TRUE, els |-> <<>>]
    ELSE LET x == Head(merged) IN
         IF ~x.isGroup /\ x.chunk = <<"+">> THEN PlusElements(Tail(merged))
         ELSE LET t == IF x.isGroup THEN x.group ELSE parse(x.chunk) IN
              IF t = ParseFailure THEN [ok |-> FALSE, els |-> <<>>]
              ELSE LET rest == PlusElements(Tail(merged)) IN
                   [ok |-> rest.ok, els |-> <<t>> \o rest.els]

\* MeterArithmeticGroup.parse; ParseFailure stands for a raised exception
parse(input_string) ==
    LET str == RemoveSpaces(input_string) IN
    IF ~(Len(str) > 0) THEN ParseFailure
    ELSE IF ~(\A i \in DOMAIN str : str[i] \in Alphabet) THEN ParseFailure
    ELSE IF ~(str[1] \in Digits \cup {"("} /\ str[Len(str)] \in Digits \cup {")"})
         THEN ParseFailure
    ELSE IF AdjacentOperators(str) THEN ParseFailure
    ELSE IF \E i \in DOMAIN str : str[i] \in {"(", ")", "*", "+"}
    THEN LET c == ChunkLoop(str, 1, 0, <<>>, <<>>) IN
         IF c.level # 0 THEN ParseFailure
         ELSE LET m == MergeMultiplies(c.chunks, 1, <<>>) IN
              IF ~m.ok THEN ParseFailure
              ELSE LET e == PlusElements(m.merged) IN
                   IF ~e.ok THEN ParseFailure ELSE Group(e.els, "+")
    ELSE Number(ToInt(str))

(***************************************************************************)
(* MeterArithmeticGroup.to_metric_layer.  An intermediate result is bound  *)
(* as a value (x \in {e}), so that it is computed once, before its use.    *)
(***************************************************************************)
RECURSIVE to_metric_layer(_, _, _)
RECURSIVE LayersOf(_, _, _, _, _)
RECURSIVE ReduceMul(_, _, _, _, _)

\* [x.to_metric_layer(b) for x in elements], left to right
LayersOf(h, elements, i, break_up, acc) ==
    IF i > Len(elements) THEN [h |-> h, r |-> acc]
    ELSE CHOOSE res \in
             {LayersOf(x.h, elements, i + 1, break_up, Append(acc, LayerItem(x.r))) :
                 x \in {to_metric_layer(h, elements[i], break_up)}} : TRUE

\* functools.reduce(operator.mul, ...) once the first element is value
ReduceMul(h, elements, i, break_up, value) ==
    IF i > Len(elements) THEN [h |-> h, r |-> value]
    ELSE CHOOSE res \in
             {ReduceMul(p.h, elements, i + 1, break_up, p.r) :
                 p \in UNION {{mul(x.h, value, x.r)} :
                                 x \in {to_metric_layer(h, elements[i], break_up)}}} : TRUE

to_metric_layer(h, self, break_up) ==
    IF self.operation = "None"
    THEN MetricLayer(h, <<IntItem(self.n)>>, break_up)
    ELSE IF self.operation = "+"
    THEN CHOOSE res \in {MetricLayer(ls.h, ls.r, break_up) :
                             ls \in {LayersOf(h, self.elements, 1, break_up, <<>>)}} : TRUE
    ELSE CHOOSE res \in {ReduceMul(x.h, self.elements, 2, break_up, x.r) :
                             x \in {to_metric_layer(h, self.elements[1], break_up)}} : TRUE

(***************************************************************************)
(* get_indispensibility_array and indispensibility_array_from_expression   *)
(***************************************************************************)
NoArray == [status |-> "None", count |-> 0, array |-> <<>>, normalized |-> <<>>]

get_indispensibility_array(h, self, upbeats_before_group_length, normalize) ==
    LET nested == List(get_nested_beat_groups(h, self)) IN
    IF HasEmptyList(nested)
    THEN [NoArray EXCEPT !.status = "ArrayError", !.count = count_nested_list(nested.items)]
    ELSE LET flat == FlattenLoop(normalize_depth(nested), upbeats_before_group_length)
             backward_beat_priorities == [i \in DOMAIN flat.items |-> flat.items[i].val]
             length == Len(backward_beat_priorities)
         IN IF \E i \in 0..(length - 1) : i \notin Range(backward_beat_priorities)
            THEN [NoArray EXCEPT !.status = "ArrayError", !.count = count_nested_list(nested.items)]
            ELSE LET indispensibility_array == ArrayFromPriorities(backward_beat_priorities)
                 IN IF normalize /\ SeqMax(indispensibility_array) = 0
                    THEN [status |-> "ZeroDivisionError",
                          count |-> count_nested_list(nested.items),
                          array |-> indispensibility_array, normalized |-> <<>>]
                    ELSE [status |-> "Ok",
                          count |-> count_nested_list(nested.items),
                          array |-> indispensibility_array,
                          normalized |-> IF normalize THEN Normalized(indispensibility_array)
                                         ELSE <<>>]

NoOutcome == [status |-> "None", tree |-> ParseFailure, root |-> 0, count |-> 0,
              array |-> <<>>, normalized |-> <<>>, h |-> EmptyHeap]

\* the structure m is bound as a value, so that it is built before the array is
indispensibility_array_from_expression(expr, normalize, split_large_numbers, upbeats) ==
    LET t == parse(expr)
        upbeats_before_group_length == upbeats IN
    IF t = ParseFailure THEN [NoOutcome EXCEPT !.status = "ParseError"]
    ELSE CHOOSE res \in
             {LET a == get_indispensibility_array(m.h, m.r, upbeats_before_group_length,
                                                  normalize)
              IN [status |-> a.status, tree |-> t, root |-> m.r, count |-> a.count,
                  array |-> a.array, normalized |-> a.normalized, h |-> m.h] :
                 m \in {to_metric_layer(EmptyHeap, t, split_large_numbers)}} : TRUE

(***************************************************************************)
(* Meter expressions derivable from the grammar                            *)
(*   expr := term ('+' term)*, term := factor ('*' factor)*,               *)
(*   factor := INTEGER | '(' expr ')'                                      *)
(* each with its ordinary arithmetic value; valid when every literal is    *)
(* positive.  len bounds the length of the string.                         *)
(***************************************************************************)
Expression(str, val, valid) == [str |-> str, val |-> val, valid |-> valid]

InputDigits == {c \in Digits : DigitValue[c] <= MaxDigit}

Literals(len) ==
    {Expression(<<c>>, DigitValue[c], DigitValue[c] > 0) : c \in {d \in InputDigits : len >= 1}}
    \cup {Expression(<<c[1], c[2]>>, ToInt(<<c[1], c[2]>>), ToInt(<<c[1], c[2]>>) > 0) :
             c \in {d \in InputDigits \X InputDigits :
                       len >= 2 /\ ToInt(<<d[1], d[2]>>) <= MaxBeats}}

RECURSIVE Factors(_)
RECURSIVE Terms(_)
RECURSIVE Exprs(_)

Factors(len) ==
    Literals(len)
    \cup {Expression(<<"(">> \o e.str \o <<")">>, e.val, e.valid) :
             e \in IF len >= 3 THEN Exprs(len - 2) ELSE {}}

Terms(len) ==
    Factors(len)
    \cup UNION {{Expression(p[1].str \o <<"*">> \o p[2].str, p[1].val * p[2].val,
                            p[1].valid /\ p[2].valid) :
                    p \in {q \in Factors(k) \X Terms(len - 1 - k) :
                              q[1].val * q[2].val <= MaxBeats}} : k \in 1..(len - 2)}

Exprs(len) ==
    Terms(len)
    \cup UNION {{Expression(p[1].str \o <<"+">> \o p[2].str, p[1].val + p[2].val,
                            p[1].valid /\ p[2].valid) :
                    p \in {q \in Terms(k) \X Exprs(len - 1 - k) :
                              q[1].val + q[2].val <= MaxBeats}} : k \in 1..(len - 2)}

\* the expressions the specification and the docstrings use as examples
SpecExamples ==
    {Expression(<<"(", "2", "+", "2", ")", "+", "3">>, 7, TRUE),
     Expression(<<"2", "+", "(", "2", "+", "3", ")">>, 7, TRUE),
     Expression(<<"2", "+", "2", "+", "3">>, 7, TRUE),
     Expression(<<"(", "4", "+", "2", ")", "+", "3">>, 9, TRUE),
     Expression(<<"4", "+", "(", "2", "+", "3", ")">>, 9, TRUE),
     Expression(<<"4", "+", "2", "+", "3">>, 9, TRUE),
     Expression(<<"2", "*", "3", "*", "4">>, 24, TRUE),
     Expression(<<"(", "2", " ", "+", " ", "3", " ", "+", " ", "2", ")", " ", "*", " ", "3">>,
                21, TRUE)}

Inputs == Exprs(MaxLen) \cup SpecExamples

(***************************************************************************)
(* Specification of one call of indispensibility_array_from_expression     *)
(***************************************************************************)
NoFlags == [normalize |-> FALSE, split_large_numbers |-> FALSE,
            upbeats_before_group_length |-> TRUE]
NoOp == [op |-> "none", target |-> 0, arg |-> <<>>, result |-> 0, n |-> 0]

Init ==
    /\ mode = "expression"
    /\ phase = "start"
    /\ input \in Inputs
    /\ flags = NoFlags
    /\ outcome = NoOutcome
    /\ heap = EmptyHeap
    /\ names = {}
    /\ last = NoOp

Call(normalize, split_large_numbers, upbeats_before_group_length) ==
    /\ mode = "expression"
    /\ phase = "start"
    /\ LET res == indispensibility_array_from_expression(
                      input.str, normalize, split_large_numbers, upbeats_before_group_length)
       IN /\ outcome' = [res EXCEPT !.h = EmptyHeap]
          /\ heap' = res.h
          /\ names' = IF res.root = 0 THEN {} ELSE {res.root}
    /\ flags' = [normalize |-> normalize, split_large_numbers |-> split_large_numbers,
                 upbeats_before_group_length |-> upbeats_before_group_length]
    /\ phase' = "done"
    /\ UNCHANGED <<mode, input, last>>

Next == \E normalize \in BOOLEAN, split_large_numbers \in BOOLEAN,
           upbeats_before_group_length \in BOOLEAN :
            Call(normalize, split_large_numbers, upbeats_before_group_length)

Spec == Init /\ [][Next]_vars

Done == mode = "expression" /\ phase = "done"

(***************************************************************************)
(* Properties of indispensibility_array_from_expression                    *)
(***************************************************************************)
\* the structure below object o as a nested value: an integer group is a
\* leaf, a nested layer the list of its groups
RECURSIVE LayerValue(_, _)
LayerValue(h, o) ==
    List([i \in DOMAIN groups(h, o) |->
            IF groups(h, o)[i].kind = "layer" THEN LayerValue(h, groups(h, o)[i].v)
            ELSE Leaf(groups(h, o)[i].v)])

IsPermutation(a, N) ==
    /\ Len(a) = N
    /\ \A k \in 0..(N - 1) : \E i \in DOMAIN a : a[i] = k /\ \A j \in DOMAIN a : a[j] = k => j = i

DefaultFlags == flags.upbeats_before_group_length /\ ~flags.split_large_numbers
                /\ ~flags.normalize

\* C1: for every valid expression and every setting of break_up_large_numbers and
\* upbeats_before_group_length, the unnormalized array is a permutation of 0..N-1,
\* N being the arithmetic value (total beat count) of the expression
C1_Permutation ==
    (Done /\ input.valid /\ ~flags.normalize)
        => (outcome.status = "Ok" /\ IsPermutation(outcome.array, input.val))

C1_Witness ==
    /\ Done /\ input.valid /\ ~flags.normalize
    /\ flags.split_large_numbers /\ ~flags.upbeats_before_group_length
    /\ input.val >= 9 /\ outcome.status = "Ok" /\ Len(outcome.array) = input.val

\* C2: for every valid expression and every flag setting, the downbeat entry of the
\* unnormalized array is the maximum of the array, N-1
C2_DownbeatIsMax ==
    (Done /\ input.valid /\ ~flags.normalize)
        => /\ outcome.status = "Ok"
           /\ outcome.array[1] = input.val - 1
           /\ \A i \in DOMAIN outcome.array : outcome.array[i] <= outcome.array[1]

C2_Witness ==
    /\ Done /\ input.valid /\ ~flags.normalize /\ flags.upbeats_before_group_length
    /\ input.val >= 7 /\ outcome.status = "Ok" /\ outcome.array[1] = input.val - 1
    /\ outcome.array[2] # 0

\* C3: for every valid expression, normalize=True succeeds and returns every entry
\* divided by the maximum: entries in [0, 1], downbeat exactly 1.0, also when the
\* total beat count is 1
C3_NormalizeSucceeds ==
    (Done /\ input.valid /\ flags.normalize)
        => /\ outcome.status = "Ok"
           /\ Len(outcome.normalized) = Len(outcome.array)
           /\ \A i \in DOMAIN outcome.normalized :
                 /\ outcome.normalized[i].den = SeqMax(outcome.array)
                 /\ outcome.normalized[i].num = outcome.array[i]
                 /\ outcome.normalized[i].den > 0
                 /\ 0 <= outcome.normalized[i].num
                 /\ outcome.normalized[i].num <= outcome.normalized[i].den
           /\ outcome.normalized[1].num = outcome.normalized[1].den

\* C4: for every expression with positive literals the structure built by
\* parse(expr).to_metric_layer(b) has a total beat count, and an array length,
\* equal to the arithmetic value of the expression, for b False and True
C4_BeatCountIsValue ==
    (Done /\ input.valid)
        => /\ outcome.count = input.val
           /\ count_nested_list(get_nested_beat_groups(heap, outcome.root)) = input.val
           /\ Len(outcome.array) = input.val

C4_Witness ==
    /\ Done /\ flags.split_large_numbers
    /\ input.str = <<"2", "*", "3", "*", "4">>
    /\ outcome.count = 24 /\ Len(outcome.array) = 24

\* the array and the structure the call returns for an expression under the
\* flags of the current state
ArrayFor(str) ==
    indispensibility_array_from_expression(
        str, flags.normalize, flags.split_large_numbers,
        flags.upbeats_before_group_length).array

StructureFor(str) ==
    LET r == indispensibility_array_from_expression(
                 str, flags.normalize, flags.split_large_numbers,
                 flags.upbeats_before_group_length)
    IN LayerValue(r.h, r.root)

LeftNested223 == <<"(", "2", "+", "2", ")", "+", "3">>
RightNested223 == <<"2", "+", "(", "2", "+", "3", ")">>
Flat223 == <<"2", "+", "2", "+", "3">>

\* C5 as stated: with default flags the array for "(2+2)+3" differs from the array
\* for "2+2+3" in at least one beat position
C5_LeftNestingDiffers ==
    (Done /\ DefaultFlags /\ input.str = LeftNested223)
        => \E i \in DOMAIN outcome.array : outcome.array[i] # ArrayFor(Flat223)[i]

\* C5 amended: with default flags the array for "2+(2+3)" differs from the array for
\* "2+2+3" in at least one beat position, while "(2+2)+3" gives the same array as
\* "2+2+3" although its structure is nested differently
C5_RightNestingDiffers ==
    /\ (Done /\ DefaultFlags /\ input.str = RightNested223)
         => /\ outcome.status = "Ok"
            /\ \E i \in DOMAIN outcome.array : outcome.array[i] # ArrayFor(Flat223)[i]
    /\ (Done /\ DefaultFlags /\ input.str = LeftNested223)
         => /\ outcome.status = "Ok"
            /\ outcome.array = ArrayFor(Flat223)
            /\ LayerValue(heap, outcome.root) # StructureFor(Flat223)

C5_Witness ==
    /\ Done /\ DefaultFlags /\ input.str = RightNested223
    /\ outcome.array = <<6, 2, 5, 1, 4, 0, 3>>

(***************************************************************************)
(* Specification of one call of MeterArithmeticGroup.parse on a raw string *)
(***************************************************************************)
RawChars == {"2", "+", "*", "(", ")", " ", "x"}

RECURSIVE Strings(_)
Strings(len) ==
    IF len = 0 THEN {<<>>}
    ELSE LET shorter == Strings(len - 1)
         IN shorter \cup {Append(str, c) : str \in {t \in shorter : Len(t) = len - 1},
                                           c \in RawChars}

\* the malformed inputs the specification names
MalformedExamples ==
    {<<"+", "2", "+", "3">>, <<"2", "+", "+", "3">>, <<"(", "2", "+", "3">>, <<>>}

RawInputs == Strings(MaxStr) \cup MalformedExamples

ParseInit ==
    /\ mode = "parse"
    /\ phase = "start"
    /\ input \in {Expression(str, 0, FALSE) : str \in RawInputs}
    /\ flags = NoFlags
    /\ outcome = NoOutcome
    /\ heap = EmptyHeap
    /\ names = {}
    /\ last = NoOp

ParseCall ==
    /\ mode = "parse"
    /\ phase = "start"
    /\ LET t == parse(input.str)
       IN outcome' = [NoOutcome EXCEPT !.status = IF t = ParseFailure THEN "ParseError" ELSE "Ok",
                                       !.tree = t]
    /\ phase' = "done"
    /\ UNCHANGED <<mode, input, flags, heap, names, last>>

ParseNext == ParseCall

ParseSpec == ParseInit /\ [][ParseNext]_vars

Parsed == mode = "parse" /\ phase = "done"

\* the shapes of malformed input, on the string without its spaces
RECURSIVE ParenBalance(_)
ParenBalance(str) ==
    IF str = <<>> THEN 0
    ELSE ParenBalance(SubSeq(str, 1, Len(str) - 1))
         + (IF str[Len(str)] = "(" THEN 1 ELSE IF str[Len(str)] = ")" THEN -1 ELSE 0)

UnmatchedParentheses(str) ==
    \/ ParenBalance(str) # 0
    \/ \E i \in DOMAIN str : ParenBalance(SubSeq(str, 1, i)) < 0

Malformed(raw) ==
    LET str == RemoveSpaces(raw) IN
    \/ str = <<>>
    \/ \E i \in DOMAIN raw : raw[i] \notin Alphabet \cup {" "}
    \/ str[1] \in Operators
    \/ str[Len(str)] \in Operators
    \/ \E i \in 1..(Len(str) - 1) : str[i] \in Operators /\ str[i + 1] \in Operators
    \/ UnmatchedParentheses(str)

\* C6: parse fails, returning no tree, for every input with a leading or trailing
\* operator, adjacent operators, unmatched parentheses, no characters, or a
\* character outside digits, '+', '*', '(', ')' and space
C6_MalformedRejected ==
    (Parsed /\ Malformed(input.str))
        => (outcome.status = "ParseError" /\ outcome.tree = ParseFailure)

C6_Witness ==
    /\ Parsed /\ input.str = <<"(", "2", "+", "3">>
    /\ outcome.status = "ParseError"

\* the language of the grammar expr := term ('+' term)*,
\* term := factor ('*' factor)*, factor := INTEGER | '(' expr ')'
IsInteger(str) == str # <<>> /\ \A i \in DOMAIN str : str[i] \in Digits

RECURSIVE IsExpr(_)
RECURSIVE IsTerm(_)
RECURSIVE IsFactor(_)

IsFactor(str) ==
    \/ IsInteger(str)
    \/ /\ Len(str) >= 3
       /\ str[1] = "(" /\ str[Len(str)] = ")"
       /\ IsExpr(SubSeq(str, 2, Len(str) - 1))

IsTerm(str) ==
    \/ IsFactor(str)
    \/ \E k \in 2..(Len(str) - 1) :
          /\ str[k] = "*"
          /\ IsFactor(SubSeq(str, 1, k - 1))
          /\ IsTerm(SubSeq(str, k + 1, Len(str)))

IsExpr(str) ==
    \/ IsTerm(str)
    \/ \E k \in 2..(Len(str) - 1) :
          /\ str[k] = "+"
          /\ IsTerm(SubSeq(str, 1, k - 1))
          /\ IsExpr(SubSeq(str, k + 1, Len(str)))

\* C7: parse accepts exactly the language of the grammar; every other string over
\* the alphabet is rejected with an error
C7_AcceptsExactlyGrammar ==
    Parsed => (outcome.status = "Ok" <=> IsExpr(RemoveSpaces(input.str)))

(***************************************************************************)
(* Specification of a program that constructs and mutates MetricLayer      *)
(* objects directly                                                        *)
(***************************************************************************)
IntChoices == {0, 4}
Multipliers == {1, 2}

RECURSIVE ReachLists(_, _)
ReachLists(h, o) ==
    {h.objs[o]} \cup UNION {ReachLists(h, groups(h, o)[i].v) :
                               i \in {j \in DOMAIN groups(h, o) : groups(h, o)[j].kind = "layer"}}

RECURSIVE ReachObjs(_, _)
ReachObjs(h, o) ==
    {o} \cup UNION {ReachObjs(h, groups(h, o)[i].v) :
                       i \in {j \in DOMAIN groups(h, o) : groups(h, o)[j].kind = "layer"}}

ItemChoices == {IntItem(k) : k \in IntChoices} \cup {LayerItem(o) : o \in names}

GroupChoices ==
    LET its == ItemChoices \cup {OtherItem}
    IN {<<>>} \cup {<<x>> : x \in its} \cup {<<x, y>> : x \in its, y \in its}

ObjectsInit ==
    /\ mode = "objects"
    /\ phase = "start"
    /\ input = Expression(<<>>, 0, FALSE)
    /\ flags = NoFlags
    /\ outcome = NoOutcome
    /\ heap = EmptyHeap
    /\ names = {}
    /\ last = NoOp

\* the frame of every operation on objects: what it did, and the bounds
Operation(op, target, arg, res) ==
    /\ mode = "objects"
    /\ last.n < MaxOps
    /\ Len(res.h.objs) <= MaxObjs
    /\ heap' = res.h
    /\ names' = IF res.r = 0 THEN names ELSE names \cup {res.r}
    /\ last' = [op |-> op, target |-> target, arg |-> arg, result |-> res.r, n |-> last.n + 1]
    /\ UNCHANGED <<mode, phase, input, flags, outcome>>

\* MetricLayer(*gs, break_up_large_numbers=b); result 0 is the failed assertion
New(gs, b) ==
    Operation("new", 0, gs,
              IF \E i \in DOMAIN gs : gs[i].kind = "other" THEN [h |-> heap, r |-> 0]
              ELSE MetricLayer(heap, gs, b))

\* a + x, that is a.join(x)
Add(a, x) == Operation("add", a, <<x>>, MetricLayer(heap, <<LayerItem(a), x>>, FALSE))

\* a * c for a MetricLayer c
Mul(a, c) == Operation("mul", a, <<LayerItem(c)>>, mul(heap, a, c))

\* a * k for an integer k
MulInt(a, k) == Operation("mul", a, <<IntItem(k)>>, mul_int(heap, a, k))

\* k * a for an integer k
RMul(k, a) == Operation("rmul", a, <<IntItem(k)>>, rmul(heap, a, k))

\* a.append(x, in_place)
append(h, self, x, in_place) ==
    IF in_place
    THEN [h |-> remove_redundant_nesting(
                    [h EXCEPT !.lists[h.objs[self]] = Append(@, x)], self),
          r |-> self]
    ELSE MetricLayer(h, Append(groups(h, self), x), FALSE)

\* a.extend(c, in_place)
extend(h, self, other, in_place) ==
    IF in_place
    THEN [h |-> remove_redundant_nesting(
                    [h EXCEPT !.lists[h.objs[self]] = @ \o groups(h, other)], self),
          r |-> self]
    ELSE MetricLayer(h, groups(h, self) \o groups(h, other), FALSE)

\* in-place growth is modelled where it leaves the object graph acyclic
StaysAcyclic(a, its) ==
    \A i \in DOMAIN its :
        its[i].kind = "layer" => heap.objs[a] \notin ReachLists(heap, its[i].v)

AppendTo(a, x, in_place) ==
    /\ in_place => StaysAcyclic(a, <<x>>)
    /\ Operation(IF in_place THEN "append" ELSE "append_copy", a, <<x>>,
                 append(heap, a, x, in_place))

ExtendWith(a, c, in_place) ==
    /\ in_place => StaysAcyclic(a, groups(heap, c))
    /\ Operation(IF in_place THEN "extend" ELSE "extend_copy", a, <<LayerItem(c)>>,
                 extend(heap, a, c, in_place))

\* a.break_up_large_numbers()
BreakUp(a) == Operation("break_up", a, <<>>, [h |-> break_up_large_numbers(heap, a), r |-> a])

ObjectsNext ==
    \/ \E gs \in GroupChoices, b \in BOOLEAN : New(gs, b)
    \/ \E a \in names, x \in ItemChoices : Add(a, x)
    \/ \E a \in names, c \in names : Mul(a, c)
    \/ \E a \in names, k \in Multipliers : MulInt(a, k)
    \/ \E a \in names, k \in Multipliers : RMul(k, a)
    \/ \E a \in names, x \in ItemChoices, in_place \in BOOLEAN : AppendTo(a, x, in_place)
    \/ \E a \in names, c \in names, in_place \in BOOLEAN : ExtendWith(a, c, in_place)
    \/ \E a \in names : BreakUp(a)

ObjectsSpec == ObjectsInit /\ [][ObjectsNext]_vars

\* a literal of the tree that is not positive
RECURSIVE HasNonPositiveLiteral(_)
HasNonPositiveLiteral(t) ==
    IF t.operation = "None" THEN t.n <= 0
    ELSE \E i \in DOMAIN t.elements : HasNonPositiveLiteral(t.elements[i])

\* C8: constructing a metric structure fails at construction time if a group is
\* neither an integer nor a structure, or if an integer group is <= 0; a literal 0
\* in an expression is rejected when the structure is built
C8_ConstructionFailsFast ==
    /\ (mode = "objects" /\ last.op = "new"
        /\ \E i \in DOMAIN last.arg :
              \/ last.arg[i].kind = "other"
              \/ last.arg[i].kind = "int" /\ last.arg[i].v <= 0)
         => last.result = 0
    /\ (Done /\ outcome.status # "ParseError" /\ HasNonPositiveLiteral(outcome.tree))
         => outcome.status = "BuildError"

NormalForm(h, o) == ~(Len(groups(h, o)) = 1 /\ groups(h, o)[1].kind = "layer")

\* C9: after any sequence of constructions and mutations, every structure the
\* program holds and all its descendants are in normal form: no node has exactly
\* one group that is itself a structure
C9_AlwaysNormalForm ==
    mode = "objects" => \A a \in names : \A o \in ReachObjs(heap, a) : NormalForm(heap, o)

TotalBeatCount(h, o) == count_nested_list(get_nested_beat_groups(h, o))

\* C10: an in-place append or extend on one structure leaves the groups and the
\* total beat count of every other structure object unchanged
C10_NoSharedState ==
    [][(mode = "objects" /\ last'.op \in {"append", "extend"})
          => \A o \in names \ {last'.target} :
                /\ LayerValue(heap', o) = LayerValue(heap, o)
                /\ TotalBeatCount(heap', o) = TotalBeatCount(heap, o)]_vars

(***************************************************************************)
(* barlow_style_indispensibility_array and the older implementation it     *)
(* re-implements, get_standard_indispensability_array of                   *)
(* scamp_extensions/composers/barlicity.py.  A stratum is an integer or a  *)
(* tuple of integers.                                                      *)
(***************************************************************************)
MaxStrata == 3     \* most strata handed to a call
MaxStratum == 6    \* largest integer stratum
MaxPulses == 36    \* largest product of the strata of a call

IntStratum(n) == [kind |-> "int", v |-> n, items |-> <<>>]
TupleStratum(s) == [kind |-> "tuple", v |-> 0, items |-> s]

DigitChars == <<"0", "1", "2", "3", "4", "5", "6", "7", "8", "9">>

\* str(x) for an integer x
RECURSIVE IntToStr(_)
IntToStr(x) ==
    IF x < 0 THEN <<"-">> \o IntToStr(-x)
    ELSE IF x < 10 THEN <<DigitChars[x + 1]>>
    ELSE IntToStr(x \div 10) \o <<DigitChars[(x % 10) + 1]>>

\* sep.join(strs)
RECURSIVE Join(_, _)
Join(sep, strs) ==
    IF strs = <<>> THEN <<>>
    ELSE IF Len(strs) = 1 THEN strs[1]
    ELSE strs[1] \o sep \o Join(sep, Tail(strs))

\* str(x) for a stratum x: a tuple prints as "(2, 3)", a 1-tuple as "(2,)"
StratumToStr(x) ==
    IF x.kind = "int" THEN IntToStr(x.v)
    ELSE IF Len(x.items) = 1 THEN <<"(">> \o IntToStr(x.items[1]) \o <<",", ")">>
    ELSE <<"(">> \o Join(<<",", " ">>, [i \in DOMAIN x.items |-> IntToStr(x.items[i])])
         \o <<")">>

\* mutant: the strata are not checked
barlow_style_indispensibility_array_Unchecked(rhythmic_strata, normalize) ==
    indispensibility_array_from_expression(
        Join(<<"*">>, [i \in DOMAIN rhythmic_strata |-> StratumToStr(rhythmic_strata[i])]),
        normalize, TRUE, FALSE)

\* mutant: the upbeats are taken before the group length, as by default
barlow_style_indispensibility_array_Upbeats(rhythmic_strata, normalize) ==
    IF ~(\A i \in DOMAIN rhythmic_strata : rhythmic_strata[i].kind = "int")
    THEN [NoOutcome EXCEPT !.status = "StrataError"]
    ELSE indispensibility_array_from_expression(
             Join(<<"*">>, [i \in DOMAIN rhythmic_strata |-> StratumToStr(rhythmic_strata[i])]),
             normalize, TRUE, TRUE)

barlow_style_indispensibility_array(rhythmic_strata, normalize) ==
    IF ~(\A i \in DOMAIN rhythmic_strata : rhythmic_strata[i].kind = "int")
    THEN [NoOutcome EXCEPT !.status = "StrataError"]
    ELSE indispensibility_array_from_expression(
             Join(<<"*">>, [i \in DOMAIN rhythmic_strata |-> StratumToStr(rhythmic_strata[i])]),
             normalize, TRUE, FALSE)

\* barlicity._rotate
barlicity_rotate(l, n) == SubSeq(l, n + 1, Len(l)) \o SubSeq(l, 1, n)

\* barlicity._decompose_to_twos_and_threes
RECURSIVE barlicity_Twos(_)
barlicity_Twos(n) == IF n > 0 THEN <<2>> \o barlicity_Twos(n - 2) ELSE <<>>

barlicity_decompose_to_twos_and_threes(n) ==
    Reverse(IF n % 2 = 1 THEN <<3>> \o barlicity_Twos(n - 3) ELSE barlicity_Twos(n))

\* the construction of beat_groups from the reversed group lengths
RECURSIVE BarlicityBeatGroups(_, _)
BarlicityBeatGroups(group_lengths, beat) ==
    IF group_lengths = <<>> THEN <<>>
    ELSE <<[i \in 1..Head(group_lengths) |-> beat + i - 1]>>
         \o BarlicityBeatGroups(Tail(group_lengths), beat + Head(group_lengths))

\* one pass of the for loop inside the while loop: every beat group whose length
\* is largest_beat_group_length gives its first element, in order
RECURSIVE RoundPass(_, _, _)
RoundPass(st, i, largest_beat_group_length) ==
    IF i > Len(st.groups) THEN st
    ELSE IF Len(st.groups[i]) = largest_beat_group_length
         THEN RoundPass([out |-> Append(st.out, Head(st.groups[i])),
                         groups |-> [st.groups EXCEPT ![i] = Tail(@)]],
                        i + 1, largest_beat_group_length)
         ELSE RoundPass(st, i + 1, largest_beat_group_length)

\* the while loop: rounds until every beat group is empty
RECURSIVE Rounds(_)
Rounds(st) ==
    LET largest_beat_group_length == SeqMax([i \in DOMAIN st.groups |-> Len(st.groups[i])])
    IN IF largest_beat_group_length > 0
       THEN Rounds(RoundPass(st, 1, largest_beat_group_length))
       ELSE st

\* barlicity._first_order_backward_beat_priorities for a stratum of positive lengths
first_order_backward_beat_priorities(length) ==
    IF length.kind = "tuple"
    THEN LET beat_groups == BarlicityBeatGroups(Reverse(length.items), 0)
         IN Rounds([out |-> [i \in DOMAIN beat_groups |-> Head(beat_groups[i])],
                    groups |-> [i \in DOMAIN beat_groups |-> Tail(beat_groups[i])]]).out
    ELSE [i \in 1..length.v |-> i - 1]

\* the multipliers of the strata: 1, l1, l1 * l2, ...
RECURSIVE StrataMultipliers(_, _)
StrataMultipliers(strata_lengths, last_multiplier) ==
    IF strata_lengths = <<>> THEN <<>>
    ELSE <<last_multiplier>>
         \o StrataMultipliers(Tail(strata_lengths), last_multiplier * Head(strata_lengths))

\* sum(p*q for p, q in zip(combination, strata_multipliers)) over
\* itertools.product(*strata_backward_beat_priorities), the last stratum varying fastest
RECURSIVE ProductSums(_, _)
ProductSums(priorities, multipliers) ==
    IF priorities = <<>> THEN <<0>>
    ELSE LET rest == ProductSums(Tail(priorities), Tail(multipliers))
         IN Flatten1([i \in DOMAIN Head(priorities) |->
                         [j \in DOMAIN rest |-> Head(priorities)[i] * Head(multipliers) + rest[j]]])

\* barlicity._get_backward_beat_priorities
barlicity_get_backward_beat_priorities(args) ==
    LET strata_backward_beat_priorities ==
            Reverse([i \in DOMAIN args |-> first_order_backward_beat_priorities(args[i])])
        strata_lengths == [i \in DOMAIN strata_backward_beat_priorities |->
                              Len(strata_backward_beat_priorities[i])]
    IN ProductSums(strata_backward_beat_priorities, StrataMultipliers(strata_lengths, 1))

\* barlicity.get_indispensability_array
get_indispensability_array(rhythmic_strata, normalize) ==
    LET backward_beat_priorities == barlicity_get_backward_beat_priorities(rhythmic_strata)
        length == Len(backward_beat_priorities)
        backward_indispensability_array ==
            [k \in 1..length |-> length - 1 - IndexOf(backward_beat_priorities, k - 1)]
        indispensability_array == Reverse(barlicity_rotate(backward_indispensability_array, 1))
    IN IF normalize /\ SeqMax(indispensability_array) = 0
       THEN [NoOutcome EXCEPT !.status = "ZeroDivisionError", !.count = length,
                              !.array = indispensability_array]
       ELSE [NoOutcome EXCEPT !.status = "Ok", !.count = length,
                              !.array = indispensability_array,
                              !.normalized = IF normalize
                                             THEN [i \in DOMAIN indispensability_array |->
                                                      [num |-> indispensability_array[i],
                                                       den |-> SeqMax(indispensability_array)]]
                                             ELSE <<>>]

\* barlicity._standardize_strata for strata that pass its assertion
standardize_strata(rhythmic_strata) ==
    [i \in DOMAIN rhythmic_strata |->
        IF rhythmic_strata[i].v > 2
        THEN TupleStratum(barlicity_decompose_to_twos_and_threes(rhythmic_strata[i].v))
        ELSE rhythmic_strata[i]]

\* barlicity.get_standard_indispensability_array
get_standard_indispensability_array(rhythmic_strata, normalize) ==
    IF ~(\A i \in DOMAIN rhythmic_strata :
            rhythmic_strata[i].kind = "int" /\ rhythmic_strata[i].v > 0)
    THEN [NoOutcome EXCEPT !.status = "AssertionError"]
    ELSE get_indispensability_array(standardize_strata(rhythmic_strata), normalize)

(***************************************************************************)
(* Specification of one call of barlow_style_indispensibility_array or of  *)
(* get_standard_indispensability_array on the same strata                  *)
(***************************************************************************)
StratumChoices == {IntStratum(n) : n \in 0..MaxStratum} \cup {TupleStratum(<<2, 3>>)}

RECURSIVE StrataOfLen(_)
StrataOfLen(len) ==
    IF len = 0 THEN {<<>>}
    ELSE {Append(s, x) : s \in StrataOfLen(len - 1), x \in StratumChoices}

StratumPulses(x) == IF x.kind = "int" THEN x.v ELSE SeqSum(x.items)

RECURSIVE StrataPulses(_)
StrataPulses(s) == IF s = <<>> THEN 1 ELSE StratumPulses(Head(s)) * StrataPulses(Tail(s))

StrataInput(s) ==
    [strata |-> s, str |-> <<>>, val |-> StrataPulses(s),
     valid |-> s # <<>> /\ \A i \in DOMAIN s : s[i].kind = "int" /\ s[i].v > 0]

StrataInputs ==
    {StrataInput(s) : s \in {t \in UNION {StrataOfLen(len) : len \in 0..MaxStrata} :
                                StrataPulses(t) <= MaxPulses}}

BarlowInit ==
    /\ mode = "barlow"
    /\ phase = "start"
    /\ input \in StrataInputs
    /\ flags = NoFlags
    /\ outcome = NoOutcome
    /\ heap = EmptyHeap
    /\ names = {}
    /\ last = NoOp

\* the frame of a call on the strata of the input
StrataCall(op, normalize, res) ==
    /\ mode = "barlow"
    /\ phase = "start"
    /\ outcome' = [res EXCEPT !.h = EmptyHeap]
    /\ heap' = res.h
    /\ names' = IF res.root = 0 THEN {} ELSE {res.root}
    /\ flags' = [normalize |-> normalize, split_large_numbers |-> TRUE,
                 upbeats_before_group_length |-> FALSE]
    /\ last' = [NoOp EXCEPT !.op = op, !.n = 1]
    /\ phase' = "done"
    /\ UNCHANGED <<mode, input>>

BarlowCall(normalize) ==
    StrataCall("barlow_style", normalize,
               barlow_style_indispensibility_array(input.strata, normalize))

StandardCall(normalize) ==
    StrataCall("get_standard", normalize,
               get_standard_indispensability_array(input.strata, normalize))

BarlowNext ==
    \/ \E normalize \in BOOLEAN : BarlowCall(normalize)
    \/ \E normalize \in BOOLEAN : StandardCall(normalize)

BarlowSpec == BarlowInit /\ [][BarlowNext]_vars

BarlowDone == mode = "barlow" /\ phase = "done" /\ last.op = "barlow_style"

IntStrata(ns) == [i \in DOMAIN ns |-> IntStratum(ns[i])]

\* C11 as stated: barlow_style_indispensability_array(2, 2) returns [3, 1, 2, 0]
C11_TwoTwoAsStated ==
    (BarlowDone /\ input.strata = IntStrata(<<2, 2>>) /\ ~flags.normalize)
        => outcome.array = <<3, 1, 2, 0>>

\* C11 amended: barlow_style_indispensability_array(2, 2) returns [3, 0, 2, 1], the
\* same array as for the single stratum 4; [3, 1, 2, 0] is the backward array before
\* it is rotated and reversed
C11_TwoTwo ==
    (BarlowDone /\ input.strata = IntStrata(<<2, 2>>) /\ ~flags.normalize)
        => (outcome.status = "Ok" /\ outcome.array = <<3, 0, 2, 1>>)

C11_Witness ==
    /\ BarlowDone /\ input.strata = IntStrata(<<2, 2>>) /\ ~flags.normalize
    /\ outcome.array[2] = 0 /\ Len(outcome.array) = 4

\* C12: barlow_style_indispensability_array(4), the single stratum 4 broken up into
\* 2+2 and flattened without upbeats first, returns [3, 0, 2, 1]
C12_SingleFour ==
    (BarlowDone /\ input.strata = IntStrata(<<4>>) /\ ~flags.normalize)
        => /\ outcome.status = "Ok"
           /\ outcome.array = <<3, 0, 2, 1>>
           /\ LayerValue(heap, outcome.root) = List(<<Leaf(2), Leaf(2)>>)

C12_Witness ==
    /\ BarlowDone /\ input.strata = IntStrata(<<4>>) /\ ~flags.normalize
    /\ outcome.array = <<3, 0, 2, 1>> /\ Len(groups(heap, outcome.root)) = 2

\* C13: for every non-empty tuple of positive integer strata the structure-based
\* barlow_style_indispensability_array ends as get_standard_indispensability_array
\* does and returns exactly the same array, normalized or not
C13_SameAsStandard ==
    (BarlowDone /\ input.valid)
        => LET std == get_standard_indispensability_array(input.strata, flags.normalize)
           IN /\ outcome.status = std.status
              /\ outcome.status = "Ok" =>
                    /\ outcome.array = std.array
                    /\ outcome.normalized = std.normalized

C13_Witness ==
    /\ BarlowDone /\ input.valid /\ ~flags.normalize
    /\ input.strata = IntStrata(<<3, 5>>)
    /\ outcome.status = "Ok" /\ Len(outcome.array) = 15

TwoPlusThree == <<"2", "+", "3">>

\* C15: for "2+3" the array is a permutation of 0..4 with array[0] = 4; it is
\* [4, 0, 3, 1, 2] with upbeats_before_group_length=False and [4, 1, 3, 0, 2] with
\* upbeats_before_group_length=True
C15_TwoPlusThree ==
    (Done /\ input.str = TwoPlusThree /\ ~flags.normalize)
        => /\ outcome.status = "Ok"
           /\ IsPermutation(outcome.array, 5)
           /\ outcome.array[1] = 4
           /\ ~flags.upbeats_before_group_length => outcome.array = <<4, 0, 3, 1, 2>>
           /\ flags.upbeats_before_group_length => outcome.array = <<4, 1, 3, 0, 2>>

C15_Witness ==
    /\ Done /\ input.str = TwoPlusThree /\ ~flags.normalize
    /\ flags.upbeats_before_group_length /\ outcome.array = <<4, 1, 3, 0, 2>>

LeftNested423 == <<"(", "4", "+", "2", ")", "+", "3">>
RightNested423 == <<"4", "+", "(", "2", "+", "3", ")">>
Flat423 == <<"4", "+", "2", "+", "3">>

IsNumber(t) == t.operation = "None"
IsPlusGroupOfNumbers(t, len) ==
    /\ t.operation = "+" /\ Len(t.elements) = len
    /\ \A i \in DOMAIN t.elements : IsNumber(t.elements[i])

\* C16: "(4+2)+3", "4+(2+3)" and "4+2+3" parse to three pairwise different trees, the
\* first two with a nested +-group, the third with three sibling terms under one
\* +-group, and to_metric_layer turns them into three pairwise different structures
C16_AdditionNotAssociative ==
    (Done /\ input.str \in {LeftNested423, RightNested423, Flat423})
        => /\ outcome.status # "ParseError"
           /\ outcome.tree.operation = "+"
           /\ input.str = LeftNested423 =>
                 /\ Len(outcome.tree.elements) = 2
                 /\ IsPlusGroupOfNumbers(outcome.tree.elements[1], 2)
                 /\ IsNumber(outcome.tree.elements[2])
           /\ input.str = RightNested423 =>
                 /\ Len(outcome.tree.elements) = 2
                 /\ IsNumber(outcome.tree.elements[1])
                 /\ IsPlusGroupOfNumbers(outcome.tree.elements[2], 2)
           /\ input.str = Flat423 => IsPlusGroupOfNumbers(outcome.tree, 3)
           /\ \A other \in {LeftNested423, RightNested423, Flat423} \ {input.str} :
                 /\ outcome.tree # parse(other)
                 /\ LayerValue(heap, outcome.root) # StructureFor(other)

C16_Witness ==
    /\ Done /\ input.str = LeftNested423 /\ ~flags.split_large_numbers
    /\ LayerValue(heap, outcome.root) = List(<<List(<<Leaf(4), Leaf(2)>>), Leaf(3)>>)

\* MetricLayer.get_backward_beat_priorities of a structure without empty groups
get_backward_beat_priorities(h, self, upbeats_before_group_length) ==
    LET nested_beat_groups ==
            FlattenLoop(normalize_depth(List(get_nested_beat_groups(h, self))),
                        upbeats_before_group_length)
    IN [i \in DOMAIN nested_beat_groups.items |-> nested_beat_groups.items[i].val]

\* the count that gives 1 for every integer group
RECURSIVE OnePerIntegerGroup(_, _)
OnePerIntegerGroup(h, o) ==
    SeqSum([i \in DOMAIN groups(h, o) |->
               IF groups(h, o)[i].kind = "layer" THEN OnePerIntegerGroup(h, groups(h, o)[i].v)
               ELSE 1])

\* the count that gives n for every integer group n
RECURSIVE SumOfGroups(_, _)
SumOfGroups(h, o) ==
    SeqSum([i \in DOMAIN groups(h, o) |->
               IF groups(h, o)[i].kind = "layer" THEN SumOfGroups(h, groups(h, o)[i].v)
               ELSE groups(h, o)[i].v])

\* C18 as stated: the total beat count, the length of the backward beat priority list
\* and of the array, is the sum over the groups of 1 for each integer group and of the
\* child's total beat count for each structure group
C18_OnePerIntegerGroup ==
    (Done /\ input.valid /\ outcome.status = "Ok")
        => /\ TotalBeatCount(heap, outcome.root) = OnePerIntegerGroup(heap, outcome.root)
           /\ Len(outcome.array) = OnePerIntegerGroup(heap, outcome.root)

\* C18 amended: the total beat count of a structure, which is the length of its
\* backward beat priority list and of its array, is the sum over its groups of n for
\* each integer group n and of the child's total beat count for each structure group
C18_SumOfGroups ==
    (Done /\ input.valid)
        => LET total == SumOfGroups(heap, outcome.root) IN
           /\ TotalBeatCount(heap, outcome.root) = total
           /\ outcome.count = total
           /\ Len(get_backward_beat_priorities(
                      heap, outcome.root, flags.upbeats_before_group_length)) = total
           /\ outcome.status = "Ok" =>
                 /\ Len(outcome.array) = total
                 /\ flags.normalize => Len(outcome.normalized) = total

C18_Witness ==
    /\ Done /\ input.str = RightNested423 /\ flags.split_large_numbers
    /\ SumOfGroups(heap, outcome.root) = 9 /\ Len(outcome.array) = 9
    /\ OnePerIntegerGroup(heap, outcome.root) = 4

(***************************************************************************)
(* Specification of one call of decompose_to_twos_and_threes               *)
(***************************************************************************)
MaxNumber == 60    \* largest integer decomposed

DecomposeInit ==
    /\ mode = "decompose"
    /\ phase = "start"
    /\ input \in {[n |-> n, str |-> <<>>, val |-> n, valid |-> n >= 2] : n \in 0..MaxNumber}
    /\ flags = NoFlags
    /\ outcome = NoOutcome
    /\ heap = EmptyHeap
    /\ names = {}
    /\ last = NoOp

DecomposeCall ==
    /\ mode = "decompose"
    /\ phase = "start"
    /\ outcome' = [NoOutcome EXCEPT !.status = "Ok",
                                    !.array = decompose_to_twos_and_threes(input.n)]
    /\ phase' = "done"
    /\ UNCHANGED <<mode, input, flags, heap, names, last>>

DecomposeNext == DecomposeCall

DecomposeSpec == DecomposeInit /\ [][DecomposeNext]_vars

Decomposed == mode = "decompose" /\ phase = "done"

\* C17: for every n >= 2 the decomposition sums to n and consists of 2s only, except
\* for exactly one 3 when n is odd, which is then the last element
C17_TwosThenThree ==
    (Decomposed /\ input.n >= 2)
        => LET out == outcome.array IN
           /\ SeqSum(out) = input.n
           /\ input.n % 2 = 0 => \A i \in DOMAIN out : out[i] = 2
           /\ input.n % 2 = 1 =>
                 /\ out[Len(out)] = 3
                 /\ \A i \in 1..(Len(out) - 1) : out[i] = 2

C17_Witness ==
    /\ Decomposed /\ input.n = 7 /\ outcome.array = <<2, 2, 3>>

(***************************************************************************)
(* Specification of one call of flatten_beat_groups on sub-groups of       *)
(* consecutively numbered beats                                            *)
(***************************************************************************)
MaxGroups == 3     \* most sub-groups handed to flatten_beat_groups
MaxGroupLen == 4   \* longest sub-group

RECURSIVE LengthsOfLen(_)
LengthsOfLen(k) ==
    IF k = 0 THEN {<<>>}
    ELSE {Append(s, len) : s \in LengthsOfLen(k - 1), len \in 0..MaxGroupLen}

\* sub-groups of the given lengths holding the beats beat, beat + 1, ...
RECURSIVE NumberedGroups(_, _)
NumberedGroups(lengths, beat) ==
    IF lengths = <<>> THEN <<>>
    ELSE <<[i \in 1..Head(lengths) |-> beat + i - 1]>>
         \o NumberedGroups(Tail(lengths), beat + Head(lengths))

BeatGroupsInput(lengths) ==
    [beat_groups |-> NumberedGroups(lengths, 0), str |-> <<>>, val |-> SeqSum(lengths),
     valid |-> lengths # <<>> /\ \A i \in DOMAIN lengths : lengths[i] > 0]

FlattenInit ==
    /\ mode = "flatten"
    /\ phase = "start"
    /\ input \in {BeatGroupsInput(lengths) :
                     lengths \in UNION {LengthsOfLen(k) : k \in 0..MaxGroups}}
    /\ flags = NoFlags
    /\ outcome = NoOutcome
    /\ heap = EmptyHeap
    /\ names = {}
    /\ last = NoOp

\* an empty sub-group makes pop(0) raise in the first loop; no sub-group at all
\* makes max() raise in the last one
FlattenCall(upbeats_before_group_length) ==
    /\ mode = "flatten"
    /\ phase = "start"
    /\ outcome' =
         IF \E i \in DOMAIN input.beat_groups : input.beat_groups[i] = <<>>
         THEN [NoOutcome EXCEPT !.status = "IndexError"]
         ELSE IF input.beat_groups = <<>>
         THEN [NoOutcome EXCEPT !.status = "ValueError"]
         ELSE [NoOutcome EXCEPT !.status = "Ok",
                                !.array = flatten_beat_groups(input.beat_groups,
                                                              upbeats_before_group_length)]
    /\ flags' = [flags EXCEPT !.upbeats_before_group_length = upbeats_before_group_length]
    /\ phase' = "done"
    /\ UNCHANGED <<mode, input, heap, names, last>>

FlattenNext == \E upbeats_before_group_length \in BOOLEAN :
                  FlattenCall(upbeats_before_group_length)

FlattenSpec == FlattenInit /\ [][FlattenNext]_vars

Flattened == mode = "flatten" /\ phase = "done"

\* what is left of the sub-groups when the remaining-length phase begins
RemainingGroups(beat_groups, upbeats) ==
    [i \in DOMAIN beat_groups |->
        SubSeq(beat_groups[i], IF upbeats /\ Len(beat_groups[i]) >= 2 THEN 3 ELSE 2,
               Len(beat_groups[i]))]

\* the round-based rule: all sub-groups of maximum remaining length give one element
\* each, in sibling order, until all are empty
RoundBased(remaining) == Rounds([out |-> <<>>, groups |-> remaining]).out

\* the second elements of the sub-groups that have at least two elements
SecondElements(beat_groups) ==
    Flatten1([i \in DOMAIN beat_groups |->
                 IF Len(beat_groups[i]) >= 2 THEN <<beat_groups[i][2]>> ELSE <<>>])

\* C19: for every list of non-empty sub-groups and both flag values, the
\* remaining-length phase as coded (one element from the first longest sub-group, then
\* the maximum again) gives the same output order as the round-based rule
C19_SameAsRounds ==
    (Flattened /\ input.valid)
        => LET remaining == RemainingGroups(input.beat_groups,
                                            flags.upbeats_before_group_length)
               rounds == RoundBased(remaining)
           IN /\ outcome.status = "Ok"
              /\ Len(outcome.array) = input.val
              /\ SubSeq(outcome.array, input.val - Len(rounds) + 1, input.val) = rounds

C19_Witness ==
    /\ Flattened /\ flags.upbeats_before_group_length
    /\ input.beat_groups = NumberedGroups(<<4, 3, 4>>, 0)
    /\ outcome.array = <<0, 4, 7, 1, 5, 8, 2, 9, 3, 6, 10>>

\* C20: the output begins with the first elements of all sub-groups in sibling order;
\* with the flag True the second elements of the sub-groups that have one follow at
\* once, in sibling order; with the flag False the rest follows the remaining-length
\* rule alone
C20_BeatsThenPickups ==
    (Flattened /\ input.valid)
        => LET k == Len(input.beat_groups)
               out == outcome.array
               seconds == SecondElements(input.beat_groups)
           IN /\ outcome.status = "Ok"
              /\ SubSeq(out, 1, k) = [i \in 1..k |-> input.beat_groups[i][1]]
              /\ flags.upbeats_before_group_length =>
                    SubSeq(out, k + 1, k + Len(seconds)) = seconds
              /\ ~flags.upbeats_before_group_length =>
                    SubSeq(out, k + 1, Len(out)) =
                        RoundBased([i \in 1..k |-> Tail(input.beat_groups[i])])

C20_Witness ==
    /\ Flattened /\ flags.upbeats_before_group_length
    /\ input.beat_groups = NumberedGroups(<<3, 1, 4>>, 0)
    /\ SubSeq(outcome.array, 1, 5) = <<0, 3, 4, 1, 5>>

(***************************************************************************)
(* flatten_beat_groups statement by statement, on its own and inside the   *)
(* while loop of MetricLayer.get_backward_beat_priorities.  outcome holds  *)
(* the local variables: array is out, groups the deep copy of beat_groups, *)
(* i the position of the running for loop, nested the nested_beat_groups   *)
(* of the caller.                                                          *)
(***************************************************************************)
StepOutcome ==
    [status |-> "None", array |-> <<>>, groups |-> <<>>, i |-> 0,
     nested |-> List(<<>>), passes |-> 0, depth0 |-> 0]

\* mutant: pop() instead of pop(0), the last element is taken
PopFirst_Last(st, i) ==
    [st EXCEPT !.array = Append(@, st.groups[i][Len(st.groups[i])]),
               !.groups[i] = SubSeq(@, 1, Len(@) - 1)]

\* out.append(sub_group.pop(0)) for the i-th sub-group
PopFirst(st, i) ==
    [st EXCEPT !.array = Append(@, Head(st.groups[i])), !.groups[i] = Tail(@)]

\* lines 191-192: the deep copy and the empty output
EnterFlatten(st, beat_groups) ==
    [st EXCEPT !.status = "Running", !.groups = beat_groups, !.array = <<>>, !.i = 1]

FlattenStepsInit ==
    /\ mode = "flatten_steps"
    /\ phase = "start"
    /\ input \in {BeatGroupsInput(lengths) :
                     lengths \in UNION {LengthsOfLen(k) : k \in 0..MaxGroups}}
    /\ flags = NoFlags
    /\ outcome = StepOutcome
    /\ heap = EmptyHeap
    /\ names = {}
    /\ last = NoOp

FlattenBegin(upbeats_before_group_length) ==
    /\ mode = "flatten_steps"
    /\ phase = "start"
    /\ outcome' = EnterFlatten(outcome, input.beat_groups)
    /\ flags' = [flags EXCEPT !.upbeats_before_group_length = upbeats_before_group_length]
    /\ phase' = "first_beats"
    /\ UNCHANGED <<mode, input, heap, names, last>>

\* one iteration of the loop of lines 194-195
FirstBeat ==
    /\ phase = "first_beats"
    /\ outcome.i <= Len(outcome.groups)
    /\ IF outcome.groups[outcome.i] = <<>>
       THEN /\ outcome' = [outcome EXCEPT !.status = "IndexError"]
            /\ phase' = "done"
       ELSE /\ outcome' = [PopFirst(outcome, outcome.i) EXCEPT !.i = outcome.i + 1]
            /\ phase' = phase
    /\ UNCHANGED <<mode, input, flags, heap, names, last>>

\* the loop of lines 194-195 is exhausted; line 197
FirstBeatsDone ==
    /\ phase = "first_beats"
    /\ outcome.i > Len(outcome.groups)
    /\ outcome' = [outcome EXCEPT !.i = 1]
    /\ phase' = IF flags.upbeats_before_group_length THEN "pickups" ELSE "longest_chain"
    /\ UNCHANGED <<mode, input, flags, heap, names, last>>

\* one iteration of the loop of lines 199-201
Pickup ==
    /\ phase = "pickups"
    /\ outcome.i <= Len(outcome.groups)
    /\ outcome' = IF Len(outcome.groups[outcome.i]) > 0
                  THEN [PopFirst(outcome, outcome.i) EXCEPT !.i = outcome.i + 1]
                  ELSE [outcome EXCEPT !.i = outcome.i + 1]
    /\ UNCHANGED <<mode, phase, input, flags, heap, names, last>>

PickupsDone ==
    /\ phase = "pickups"
    /\ outcome.i > Len(outcome.groups)
    /\ outcome' = [outcome EXCEPT !.i = 1]
    /\ phase' = "longest_chain"
    /\ UNCHANGED <<mode, input, flags, heap, names, last>>

MaxSubgroupLength(gs) == SeqMax([i \in DOMAIN gs |-> Len(gs[i])])

\* one iteration of the while loop of lines 204-212 that pops an element
ChainStep ==
    /\ phase = "longest_chain"
    /\ outcome.groups # <<>>
    /\ MaxSubgroupLength(outcome.groups) > 0
    /\ LET k == CHOOSE i \in DOMAIN outcome.groups :
                    /\ Len(outcome.groups[i]) = MaxSubgroupLength(outcome.groups)
                    /\ \A j \in 1..(i - 1) :
                          Len(outcome.groups[j]) # MaxSubgroupLength(outcome.groups)
       IN outcome' = PopFirst(outcome, k)
    /\ UNCHANGED <<mode, phase, input, flags, heap, names, last>>

\* line 205 with no sub-group at all: max() raises
ChainEmpty ==
    /\ phase = "longest_chain"
    /\ outcome.groups = <<>>
    /\ outcome' = [outcome EXCEPT !.status = "ValueError"]
    /\ phase' = "done"
    /\ UNCHANGED <<mode, input, flags, heap, names, last>>

\* lines 206-207 and 213: the break and the return; inside the loop of
\* get_backward_beat_priorities the result is assigned to nested_beat_groups
ChainBreak ==
    /\ phase = "longest_chain"
    /\ outcome.groups # <<>>
    /\ MaxSubgroupLength(outcome.groups) = 0
    /\ IF mode = "backward"
       THEN /\ outcome' = [outcome EXCEPT !.nested = List(outcome.array),
                                          !.passes = outcome.passes + 1]
            /\ phase' = "loop"
       ELSE /\ outcome' = [outcome EXCEPT !.status = "Ok"]
            /\ phase' = "done"
    /\ UNCHANGED <<mode, input, flags, heap, names, last>>

FlattenStepsNext ==
    \/ \E upbeats_before_group_length \in BOOLEAN : FlattenBegin(upbeats_before_group_length)
    \/ FirstBeat
    \/ FirstBeatsDone
    \/ Pickup
    \/ PickupsDone
    \/ ChainStep
    \/ ChainEmpty
    \/ ChainBreak

FlattenStepsSpec == FlattenStepsInit /\ [][FlattenStepsNext]_vars

\* the elements of out that come from the i-th sub-group, in the order of out
EmittedFrom(out, beat_groups, i) ==
    LET FromGroup(x) == x \in Range(beat_groups[i]) IN SelectSeq(out, FromGroup)

\* C21: at every step of flatten_beat_groups, for every sub-group the elements already
\* emitted from it followed by the elements still in it are the sub-group as given, so
\* the output is an interleaving that keeps the order inside every sub-group and holds
\* every element exactly once; the list of the caller is never modified
C21_OrderPreservingInterleaving ==
    (mode = "flatten_steps" /\ phase # "start")
        => LET beat_groups == input.beat_groups
               out == outcome.array
           IN /\ Len(outcome.groups) = Len(beat_groups)
              /\ \A i \in DOMAIN beat_groups :
                    EmittedFrom(out, beat_groups, i) \o outcome.groups[i] = beat_groups[i]
              /\ Len(out) + SeqSum([i \in DOMAIN outcome.groups |-> Len(outcome.groups[i])])
                    = input.val
              /\ beat_groups = NumberedGroups([i \in DOMAIN beat_groups |->
                                                  Len(beat_groups[i])], 0)
              /\ (phase = "done" /\ outcome.status = "Ok") =>
                    /\ Len(out) = input.val
                    /\ \A i \in DOMAIN outcome.groups : outcome.groups[i] = <<>>
                    /\ out = flatten_beat_groups(beat_groups,
                                                 flags.upbeats_before_group_length)

C21_Witness ==
    /\ mode = "flatten_steps" /\ phase = "longest_chain"
    /\ input.beat_groups = NumberedGroups(<<4, 3, 4>>, 0)
    /\ outcome.array = <<0, 4, 7, 1, 5, 8, 2>>
    /\ outcome.groups = <<(<<3>>), (<<6>>), (<<9, 10>>)>>

(***************************************************************************)
(* Specification of MetricLayer.get_backward_beat_priorities on the        *)
(* structure of a valid expression, one statement at a time                *)
(***************************************************************************)
\* the structure of the expression, built with either setting of split_large_numbers
BuiltLayer(e, split_large_numbers) == to_metric_layer(EmptyHeap, parse(e.str), split_large_numbers)

BackwardInit ==
    /\ mode = "backward"
    /\ phase = "start"
    /\ input \in {e \in Inputs : e.valid}
    /\ flags \in {[normalize |-> FALSE, split_large_numbers |-> s,
                    upbeats_before_group_length |-> u] : s \in BOOLEAN, u \in BOOLEAN}
    /\ outcome = StepOutcome
    /\ heap = BuiltLayer(input, flags.split_large_numbers).h
    /\ names = {BuiltLayer(input, flags.split_large_numbers).r}
    /\ last = NoOp

\* the call: line 294 is executed on the structure
BackwardStart ==
    /\ mode = "backward"
    /\ phase = "start"
    /\ outcome' = [StepOutcome EXCEPT
                       !.status = "Running",
                       !.nested = normalize_depth(List(get_nested_beat_groups(
                                      heap, CHOOSE o \in names : TRUE))),
                       !.depth0 = depth(normalize_depth(List(get_nested_beat_groups(
                                      heap, CHOOSE o \in names : TRUE))))]
    /\ phase' = "loop"
    /\ UNCHANGED <<mode, input, flags, heap, names, last>>

\* line 295 holds: flatten_beat_groups is called on nested_beat_groups
LoopEnter ==
    /\ mode = "backward"
    /\ phase = "loop"
    /\ depth(outcome.nested) > 1
    /\ outcome' = EnterFlatten(outcome, SubGroups(outcome.nested))
    /\ phase' = "first_beats"
    /\ UNCHANGED <<mode, input, flags, heap, names, last>>

\* line 295 fails: nested_beat_groups is returned
LoopExit ==
    /\ mode = "backward"
    /\ phase = "loop"
    /\ ~(depth(outcome.nested) > 1)
    /\ outcome' = [outcome EXCEPT !.status = "Ok", !.array = outcome.nested.items,
                                  !.groups = <<>>]
    /\ phase' = "done"
    /\ UNCHANGED <<mode, input, flags, heap, names, last>>

BackwardNext ==
    \/ BackwardStart
    \/ LoopEnter
    \/ LoopExit
    \/ FirstBeat
    \/ FirstBeatsDone
    \/ Pickup
    \/ PickupsDone
    \/ ChainStep
    \/ ChainBreak

\* the statements of a call that is under way
BackwardSteps ==
    \/ LoopEnter
    \/ LoopExit
    \/ FirstBeat
    \/ FirstBeatsDone
    \/ Pickup
    \/ PickupsDone
    \/ ChainStep
    \/ ChainBreak

\* whether the method is called is up to the caller; once it is called, the
\* interpreter always executes the next statement of the running call
BackwardSpec == BackwardInit /\ [][BackwardNext]_vars /\ WF_vars(BackwardSteps)

BackwardDone == mode = "backward" /\ phase = "done"

\* every completed pass has lowered the depth by exactly one, and the loop ends
\* after depth - 1 passes with a flat list of the N beats
PassesLowerDepth ==
    (mode = "backward" /\ phase # "start")
        => /\ outcome.status \in {"Running", "Ok"}
           /\ outcome.passes + depth(outcome.nested) = outcome.depth0
           /\ depth(outcome.nested) >= 1
           /\ BackwardDone =>
                 /\ outcome.status = "Ok"
                 /\ outcome.passes = outcome.depth0 - 1
                 /\ Len(outcome.array) = input.val
                 /\ \A i \in DOMAIN outcome.array : ~outcome.array[i].isList
                 /\ \A k \in 0..(input.val - 1) :
                       \E i \in DOMAIN outcome.array : outcome.array[i].val = k

\* C22: get_backward_beat_priorities terminates for every structure built from
\* positive integers: every flatten_beat_groups pass ends and lowers the depth of the
\* normalized tree by exactly one, and after depth - 1 passes the loop ends with a
\* flat list of exactly N integers
C22_Terminates == []PassesLowerDepth /\ ((mode = "backward" /\ phase = "loop") ~> BackwardDone)

C22_Witness ==
    /\ BackwardDone /\ input.str = RightNested423 /\ flags.split_large_numbers
    /\ outcome.depth0 = 3 /\ outcome.passes = 2 /\ Len(outcome.array) = 9

(***************************************************************************)
(* Properties of the beat group tree and of its normalization              *)
(***************************************************************************)
\* the leaves of a nested value from left to right
RECURSIVE Leaves(_)
Leaves(x) ==
    IF ~x.isList THEN <<x.val>>
    ELSE Flatten1([i \in DOMAIN x.items |-> Leaves(x.items[i])])

\* the set of the depths at which the leaves of x lie, x itself lying at depth d
RECURSIVE LeafDepths(_, _)
LeafDepths(x, d) ==
    IF ~x.isList THEN {d}
    ELSE UNION {LeafDepths(x.items[i], d + 1) : i \in DOMAIN x.items}

\* n is t with some of its parts wrapped in single-element lists
RECURSIVE WrappedFrom(_, _)
WrappedFrom(n, t) ==
    \/ n = t
    \/ /\ n.isList /\ Len(n.items) = 1
       /\ WrappedFrom(n.items[1], t)
    \/ /\ n.isList /\ t.isList /\ Len(n.items) = Len(t.items)
       /\ \A i \in DOMAIN t.items : WrappedFrom(n.items[i], t.items[i])

\* the tree that get_backward_beat_priorities hands to normalize_depth
BeatGroupTree == List(get_nested_beat_groups(heap, outcome.root))

\* C23: on the tree of get_nested_beat_groups, normalize_depth puts every leaf at the
\* depth of the deepest leaf of its input, only by wrapping parts in single-element
\* lists, and leaves the left-to-right sequence of the leaves as it was
C23_UniformDepthByWrapping ==
    (Done /\ input.valid)
        => LET t == BeatGroupTree
               n == normalize_depth(t)
           IN /\ Leaves(n) = Leaves(t)
              /\ \A d \in LeafDepths(n, 0) : \A e \in LeafDepths(t, 0) : d >= e
              /\ LeafDepths(n, 0) \subseteq LeafDepths(t, 0)
              /\ Cardinality(LeafDepths(n, 0)) = 1
              /\ WrappedFrom(n, t)

C23_Witness ==
    /\ Done /\ input.str = RightNested223 /\ ~flags.split_large_numbers
    /\ LeafDepths(BeatGroupTree, 0) = {2, 3}
    /\ LeafDepths(normalize_depth(BeatGroupTree), 0) = {3}
    /\ Leaves(normalize_depth(BeatGroupTree)) = <<0, 1, 2, 3, 4, 5, 6>>

\* the shape of a nested value: every leaf becomes the same leaf
RECURSIVE Shape(_)
Shape(x) == IF ~x.isList THEN Leaf(0) ELSE List([i \in DOMAIN x.items |-> Shape(x.items[i])])

\* the shape of a structure with the order of the groups reversed at every level,
\* an integer group n standing for n beats
RECURSIVE ReversedShape(_)
ReversedShape(v) ==
    IF ~v.isList THEN List([k \in 1..v.val |-> Leaf(0)])
    ELSE List([i \in DOMAIN v.items |-> ReversedShape(v.items[Len(v.items) + 1 - i])])

\* C24: read from left to right, the leaves of the tree of get_nested_beat_groups are
\* 0, 1, ..., N - 1, and the shape of the tree is the shape of the structure with
\* the order of the groups reversed at every level
C24_NumberedReversedShape ==
    (Done /\ input.valid)
        => /\ Leaves(BeatGroupTree) = [k \in 1..input.val |-> k - 1]
           /\ Shape(BeatGroupTree) = ReversedShape(LayerValue(heap, outcome.root))

C24_Witness ==
    /\ Done /\ input.str = RightNested223 /\ ~flags.split_large_numbers
    /\ BeatGroupTree = List(<<List(<<List(<<Leaf(0), Leaf(1), Leaf(2)>>),
                                      List(<<Leaf(3), Leaf(4)>>)>>),
                              List(<<Leaf(5), Leaf(6)>>)>>)

(***************************************************************************)
(* The array builder of get_indispensibility_array on its own: the         *)
(* backward beat priorities are any permutation of 0..N-1                  *)
(***************************************************************************)
MaxPriorities == 5

PermutationsOf(N) ==
    {p \in [1..N -> 0..(N - 1)] : \A i \in 1..N : \A j \in 1..N : p[i] = p[j] => i = j}

PrioritiesInput(p) == [priorities |-> p, str |-> <<>>, val |-> Len(p), valid |-> TRUE]

BuilderInit ==
    /\ mode = "builder"
    /\ phase = "start"
    /\ input \in {PrioritiesInput(p) : p \in UNION {PermutationsOf(N) : N \in 1..MaxPriorities}}
    /\ flags = NoFlags
    /\ outcome = NoArray
    /\ heap = EmptyHeap
    /\ names = {}
    /\ last = NoOp

\* lines 309-318 on the list of line 309
BuildArray(normalize) ==
    /\ mode = "builder"
    /\ phase = "start"
    /\ LET indispensibility_array == ArrayFromPriorities(input.priorities)
       IN outcome' = [status |-> "Ok", array |-> indispensibility_array,
                      normalized |-> IF normalize /\ SeqMax(indispensibility_array) # 0
                                     THEN Normalized(indispensibility_array) ELSE <<>>]
    /\ flags' = [flags EXCEPT !.normalize = normalize]
    /\ phase' = "done"
    /\ UNCHANGED <<mode, input, heap, names, last>>

BuilderNext == \E normalize \in BOOLEAN : BuildArray(normalize)

BuilderSpec == BuilderInit /\ [][BuilderNext]_vars

Built == mode = "builder" /\ phase = "done"

\* the 0-based position of x in the permutation p
PositionOf(x, p) == CHOOSE i \in 0..(Len(p) - 1) : p[i + 1] = x

\* C25: for a permutation P of 0..N-1 the builder returns the array A of length N
\* with A[0] = N - 1 - pos(0, P) and A[j] = N - 1 - pos(N - j, P) for 1 <= j < N
C25_ArrayFromPositions ==
    Built
        => LET P == input.priorities
               N == Len(P)
               A == outcome.array
           IN /\ Len(A) = N
              /\ A[1] = N - 1 - PositionOf(0, P)
              /\ \A j \in 1..(N - 1) : A[j + 1] = N - 1 - PositionOf(N - j, P)

C25_Witness ==
    /\ Built /\ input.priorities = <<2, 0, 3, 1>>
    /\ outcome.array = <<2, 1, 3, 0>>

(***************************************************************************)
(* Properties of the break-up of large numbers                             *)
(***************************************************************************)
\* no integer group above 3 at any level of a structure
RECURSIVE NoLargeNumbers(_)
NoLargeNumbers(v) ==
    IF ~v.isList THEN v.val <= 3
    ELSE \A i \in DOMAIN v.items : NoLargeNumbers(v.items[i])

\* the expression tree in which every number above 3 is written out as the sum
\* of decompose_to_twos_and_threes
RECURSIVE Expanded(_)
Expanded(t) ==
    IF t.operation = "None"
    THEN IF t.n > 3
         THEN Group([i \in DOMAIN decompose_to_twos_and_threes(t.n) |->
                        Number(decompose_to_twos_and_threes(t.n)[i])], "+")
         ELSE t
    ELSE Group([i \in DOMAIN t.elements |-> Expanded(t.elements[i])], t.operation)

\* C26: with break_up_large_numbers = True the structure of a valid expression has
\* no integer group above 3 at any level, and it is the structure in which every
\* n > 3 is replaced by a nested structure with the groups decompose(n)
C26_LargeNumbersBrokenUp ==
    (Done /\ input.valid /\ flags.split_large_numbers)
        => LET e == to_metric_layer(EmptyHeap, Expanded(outcome.tree), FALSE)
           IN /\ NoLargeNumbers(LayerValue(heap, outcome.root))
              /\ LayerValue(heap, outcome.root) = LayerValue(e.h, e.r)

C26_Witness ==
    /\ Done /\ input.str = <<"5", "+", "4">> /\ flags.split_large_numbers
    /\ LayerValue(heap, outcome.root) =
           List(<<List(<<Leaf(2), Leaf(3)>>), List(<<Leaf(2), Leaf(2)>>)>>)

(***************************************************************************)
(* Properties of the multiplication of structures                          *)
(***************************************************************************)
\* a nested value with its redundant nesting removed: a list whose only item is a
\* list is that list, and an inner list whose only item is a number is that number
RECURSIVE Collapse(_)
Collapse(v) ==
    IF ~v.isList THEN v
    ELSE LET inner(c) == IF c.isList /\ Len(c.items) = 1 /\ ~c.items[1].isList
                         THEN c.items[1] ELSE c
             cs == [i \in DOMAIN v.items |-> inner(Collapse(v.items[i]))]
         IN IF Len(cs) = 1 /\ cs[1].isList THEN cs[1] ELSE List(cs)

\* the product as the specification describes it: every group g of a becomes g * b,
\* an integer group n becoming n copies of b
RECURSIVE GroupwiseProduct(_, _)
GroupwiseProduct(a, b) ==
    List([i \in DOMAIN a.items |->
            IF a.items[i].isList THEN GroupwiseProduct(a.items[i], b)
            ELSE List(Repeat(b, a.items[i].val))])

\* the value of the right operand of a multiplication
OperandValue(h, x) == IF x.kind = "layer" THEN LayerValue(h, x.v) ELSE List(<<Leaf(x.v)>>)

OperandBeatCount(h, x) == IF x.kind = "layer" THEN TotalBeatCount(h, x.v) ELSE x.v

\* C27: up to the removal of redundant nesting, a * b is the structure whose groups
\* are g * b for every group g of a, an integer group n giving n copies of b; the
\* total beat count of a * b is the product of the counts of a and b; and the
\* product is not commutative: "2*3" and "3*2" give different structures
C27_GroupwiseProduct ==
    /\ StructureFor(<<"2", "*", "3">>) # StructureFor(<<"3", "*", "2">>)
    /\ [][(mode = "objects" /\ last'.op = "mul")
             => /\ Collapse(LayerValue(heap', last'.result)) =
                      Collapse(GroupwiseProduct(LayerValue(heap, last'.target),
                                                OperandValue(heap, last'.arg[1])))
                /\ TotalBeatCount(heap', last'.result) =
                      TotalBeatCount(heap, last'.target) * OperandBeatCount(heap, last'.arg[1])]_vars

\* a product of two structures with several groups each has been formed
C27_Witness ==
    /\ mode = "objects" /\ last.op = "mul" /\ last.arg[1].kind = "layer"
    /\ Len(groups(heap, last.target)) = 2
    /\ Len(groups(heap, last.arg[1].v)) = 2
    /\ TotalBeatCount(heap, last.result) = 64

(***************************************************************************)
(* Properties of the upbeats_before_group_length flag                      *)
(***************************************************************************)
\* at every pass of the loop of get_backward_beat_priorities all the sibling
\* sub-groups handed to flatten_beat_groups have the same length
RECURSIVE EvenAtEveryPass(_, _)
EvenAtEveryPass(nested_beat_groups, upbeats_before_group_length) ==
    depth(nested_beat_groups) > 1
        => /\ \A i \in DOMAIN nested_beat_groups.items :
                 \A j \in DOMAIN nested_beat_groups.items :
                    Len(nested_beat_groups.items[i].items) =
                        Len(nested_beat_groups.items[j].items)
           /\ EvenAtEveryPass(List(flatten_beat_groups(SubGroups(nested_beat_groups),
                                                       upbeats_before_group_length)),
                              upbeats_before_group_length)

\* a number or a product n1 * ... * nk of numbers
IsProductOfNumbers(t) ==
    \/ IsNumber(t)
    \/ t.operation = "*" /\ \A i \in DOMAIN t.elements : IsNumber(t.elements[i])

FlatGroups(v) == [i \in DOMAIN v.items |-> v.items[i].val]

IsFlat(v) == v.items # <<>> /\ \A i \in DOMAIN v.items : ~v.items[i].isList

\* the 0-based position at which group i starts
GroupStart(g, i) == SeqSum([j \in 1..(i - 1) |-> g[j]])

\* C29: for a flat additive meter g1 + g2 + ... + gk of positive integers with N
\* beats in all and either value of the flag, the downbeat gets N - 1, the start of
\* gk gets N - 2, the start of g(k-1) gets N - 3, and so on down to the start of g2,
\* which gets N - k; every other position gets less than N - k
C29_GroupStartsRankHighest ==
    (Done /\ input.valid /\ IsFlat(LayerValue(heap, outcome.root)))
        => LET g == FlatGroups(LayerValue(heap, outcome.root))
               k == Len(g)
               N == SeqSum(g)
               A == outcome.array
               starts == {GroupStart(g, i) : i \in 1..k}
           IN /\ Len(A) = N
              /\ A[1] = N - 1
              /\ \A i \in 2..k : A[GroupStart(g, i) + 1] = N - 2 - (k - i)
              /\ \A p \in 0..(N - 1) : p \notin starts => A[p + 1] < N - k

C29_Witness ==
    /\ Done /\ input.str = Flat423 /\ ~flags.split_large_numbers
    /\ FlatGroups(LayerValue(heap, outcome.root)) = <<4, 2, 3>>
    /\ outcome.array[1] = 8 /\ outcome.array[5] = 6 /\ outcome.array[7] = 7
    /\ \A p \in {1, 2, 3, 5, 7, 8} : outcome.array[p + 1] < 6

(***************************************************************************)
(* Products of three factors, written flat, grouped to the left and        *)
(* grouped to the right                                                    *)
(***************************************************************************)
MaxFactor == 3

\* the factors: the numbers up to MaxFactor and three parenthesized sums
FactorChoices ==
    {Expression(<<c>>, DigitValue[c], TRUE) : c \in {d \in Digits : DigitValue[d] \in 1..MaxFactor}}
    \cup {Expression(<<"(", "1", "+", "4", ")">>, 5, TRUE),
          Expression(<<"(", "1", "+", "2", ")">>, 3, TRUE),
          Expression(<<"(", "2", "+", "(", "1", "+", "1", ")", ")">>, 4, TRUE)}

ProductForms == {"x*y*z", "(x*y)*z", "x*(y*z)"}

ProductExpression(form, x, y, z) ==
    IF form = "x*y*z" THEN x \o <<"*">> \o y \o <<"*">> \o z
    ELSE IF form = "(x*y)*z" THEN <<"(">> \o x \o <<"*">> \o y \o <<")", "*">> \o z
    ELSE x \o <<"*", "(">> \o y \o <<"*">> \o z \o <<")">>

ProductInput(x, y, z) ==
    [x |-> x.str, y |-> y.str, z |-> z.str, str |-> <<>>,
     val |-> x.val * y.val * z.val, valid |-> TRUE]

ProductInit ==
    /\ mode = "product"
    /\ phase = "start"
    /\ input \in {ProductInput(x, y, z) :
                     x \in FactorChoices, y \in FactorChoices, z \in FactorChoices}
    /\ flags = NoFlags
    /\ outcome = NoOutcome
    /\ heap = EmptyHeap
    /\ names = {}
    /\ last = NoOp

\* indispensibility_array_from_expression on the product written in the given form
ProductCall(form, split_large_numbers, upbeats_before_group_length) ==
    /\ mode = "product"
    /\ phase = "start"
    /\ LET res == indispensibility_array_from_expression(
                      ProductExpression(form, input.x, input.y, input.z),
                      FALSE, split_large_numbers, upbeats_before_group_length)
       IN /\ outcome' = [res EXCEPT !.h = EmptyHeap]
          /\ heap' = res.h
          /\ names' = IF res.root = 0 THEN {} ELSE {res.root}
    /\ input' = [input EXCEPT !.str = ProductExpression(form, input.x, input.y, input.z)]
    /\ flags' = [normalize |-> FALSE, split_large_numbers |-> split_large_numbers,
                 upbeats_before_group_length |-> upbeats_before_group_length]
    /\ phase' = "done"
    /\ UNCHANGED <<mode, last>>

FlatProduct ==
    \E split_large_numbers \in BOOLEAN, upbeats_before_group_length \in BOOLEAN :
        ProductCall("x*y*z", split_large_numbers, upbeats_before_group_length)

LeftProduct ==
    \E split_large_numbers \in BOOLEAN, upbeats_before_group_length \in BOOLEAN :
        ProductCall("(x*y)*z", split_large_numbers, upbeats_before_group_length)

RightProduct ==
    \E split_large_numbers \in BOOLEAN, upbeats_before_group_length \in BOOLEAN :
        ProductCall("x*(y*z)", split_large_numbers, upbeats_before_group_length)

ProductNext == FlatProduct \/ LeftProduct \/ RightProduct

ProductSpec == ProductInit /\ [][ProductNext]_vars

ProductDone == mode = "product" /\ phase = "done"

\* the form that is compared with the form called: each with the next one
NextForm(form) ==
    IF form = "x*y*z" THEN "(x*y)*z" ELSE IF form = "(x*y)*z" THEN "x*(y*z)" ELSE "x*y*z"

\* the form of the expression that was called
CalledForm == CHOOSE form \in ProductForms :
                  input.str = ProductExpression(form, input.x, input.y, input.z)

\* the result for the same factors and flags written in another form
ProductFor(form) ==
    indispensibility_array_from_expression(
        ProductExpression(form, input.x, input.y, input.z),
        flags.normalize, flags.split_large_numbers, flags.upbeats_before_group_length)

\* the structures a, b and c of the three factors, built one after the other
FactorLayers ==
    LET a == to_metric_layer(EmptyHeap, parse(input.x), flags.split_large_numbers)
        b == to_metric_layer(a.h, parse(input.y), flags.split_large_numbers)
        c == to_metric_layer(b.h, parse(input.z), flags.split_large_numbers)
    IN [h |-> c.h, a |-> a.r, b |-> b.r, c |-> c.r]

\* (a * b) * c
LeftAssociated ==
    LET f == FactorLayers
        ab == mul(f.h, f.a, f.b)
        r == mul(ab.h, ab.r, f.c)
    IN LayerValue(r.h, r.r)

\* a * (b * c)
RightAssociated ==
    LET f == FactorLayers
        bc == mul(f.h, f.b, f.c)
        r == mul(bc.h, f.a, bc.r)
    IN LayerValue(r.h, r.r)

\* C30: the multiplication of structures is associative: (a * b) * c and
\* a * (b * c) are the same structure, and the expressions "x*y*z", "(x*y)*z" and
\* "x*(y*z)" give the same indispensability array
C30_MultiplicationAssociative ==
    ProductDone
        => LET other == ProductFor(NextForm(CalledForm))
               left == LeftAssociated
           IN /\ outcome.status = "Ok"
              /\ left = RightAssociated
              /\ LayerValue(heap, outcome.root) = left
              /\ other.status = "Ok"
              /\ other.array = outcome.array
              /\ LayerValue(other.h, other.root) = left

C30_Witness ==
    /\ ProductDone /\ input.str = <<"(", "1", "+", "2", ")", "*", "(", "2", "*", "3", ")">>
    /\ ~flags.split_large_numbers
    /\ LayerValue(heap, outcome.root) =
           List(<<List(<<Leaf(3), Leaf(3)>>),
                  List(<<List(<<Leaf(3), Leaf(3)>>), List(<<Leaf(3), Leaf(3)>>)>>)>>)
    /\ Len(outcome.array) = 18

====
